---- MODULE Spec2Model ----
(***************************************************************************)
(* Model of the expense tracker's server actions (src/lib/actions) over    *)
(* the User, Category and Expense tables.  Every server action is one      *)
(* operator that maps the database and its inputs to the database after    *)
(* the call, the collaborator calls it made (in order) and its result.     *)
(* Money is counted in thousandths of a currency unit, time in ticks.      *)
(***************************************************************************)
EXTENDS Integers, Sequences, FiniteSets, TLC

VARIABLES users, categories, expenses, nextUser, nextCategory, nextExpense, now, last,
          inflight

vars == <<users, categories, expenses, nextUser, nextCategory, nextExpense, now, last,
          inflight>>

(* ------------------------------ bounds -------------------------------- *)
MaxCategories == 2
MaxExpenses == 2
MaxTime == 1

(* --------------------------- JS values -------------------------------- *)
\* formData.get(k) of a field the form does not carry, and JS null for strings
Absent == "<absent>"
NullStr == "<null>"
NoSession == "<no session>"

Number(v) == [k |-> "number", v |-> v]
NaN == [k |-> "NaN", v |-> 0]
Null == [k |-> "null", v |-> 0]
Undefined == [k |-> "undefined", v |-> 0]
UndefinedStr == "<undefined>"

UserId(n) == "user-" \o ToString(n)
CategoryId(n) == "cat-" \o ToString(n)
ExpenseId(n) == "exp-" \o ToString(n)
\* a well-formed uuid that no row has
UnknownCategoryId == CategoryId(0)
UnknownExpenseId == ExpenseId(0)
MalformedId == "not-a-uuid"

DateText(t) == "T" \o ToString(t)

\* parseFloat on the amount and budget texts the forms carry
parseFloat(text) ==
    CASE text = "45.50" -> Number(45500)
      [] text = "10.557" -> Number(10557)
      [] text = "0.004" -> Number(4)
      [] text = "0" -> Number(0)
      [] text = "-5" -> Number(-5000)
      [] text = "500" -> Number(500000)
      [] OTHER -> NaN

\* new Date(text): the instant, or an invalid date
NewDate(text) ==
    IF \E t \in 0..(MaxTime + 1) : DateText(t) = text
    THEN Number(CHOOSE t \in 0..(MaxTime + 1) : DateText(t) = text)
    ELSE NaN

\* Math.round(v * 10^2) / 10^2 : Joi rounds a number with a precision rule
\* while its convert preference is on (the default)
RoundToPrecision(v) == ((v + 5) \div 10) * 10

IsUuid(text) ==
    \/ \E n \in 0..MaxCategories : text = CategoryId(n)
    \/ \E n \in 0..MaxExpenses : text = ExpenseId(n)

IsUri(text) == text = "https://r.example/1.png"

IsHexColor(text) == text \in {"#3B82F6", "#EF4444", "#FFF"}

(* --------------------------- validation ------------------------------- *)
\* Joi.number().positive().precision(2) with its messages
AmountErrors(x, field, required, baseMsg, positiveMsg) ==
    CASE x.k = "undefined" -> IF required THEN {<<field, "Amount is required">>} ELSE {}
      [] x.k = "number" ->
           IF RoundToPrecision(x.v) > 0 THEN {} ELSE {<<field, positiveMsg>>}
      [] OTHER -> {<<field, baseMsg>>}

AmountValue(x) == IF x.k = "number" THEN Number(RoundToPrecision(x.v)) ELSE x

\* Joi.string().min(1).max(255)
DescriptionErrors(x, required) ==
    CASE x = UndefinedStr -> IF required THEN {<<"description", "Description is required">>} ELSE {}
      [] x = Absent -> {<<"description", "\"description\" must be a string">>}
      [] x = "" -> {<<"description", "\"description\" is not allowed to be empty">>}
      [] Len(x) > 255 -> {<<"description", "Description must not exceed 255 characters">>}
      [] OTHER -> {}

\* Joi.date().max("now")
DateErrors(x, required) ==
    CASE x.k = "undefined" -> IF required THEN {<<"date", "Date is required">>} ELSE {}
      [] x.k = "number" -> IF x.v > now THEN {<<"date", "Date cannot be in the future">>} ELSE {}
      [] OTHER -> {<<"date", "Invalid date">>}

\* Joi.string().uri().optional().allow(null, "")
ReceiptUrlErrors(x) ==
    IF x \in {UndefinedStr, NullStr, ""} \/ IsUri(x) THEN {}
    ELSE {<<"receiptUrl", "Invalid receipt URL">>}

createExpenseSchema(data) ==
    [errors |->
        AmountErrors(data.amount, "amount", TRUE, "Amount must be a number", "Amount must be positive")
        \cup DescriptionErrors(data.description, TRUE)
        \cup (CASE data.categoryId = UndefinedStr -> {<<"categoryId", "Category is required">>}
                [] data.categoryId = Absent -> {<<"categoryId", "\"categoryId\" must be a string">>}
                [] data.categoryId = "" -> {<<"categoryId", "\"categoryId\" is not allowed to be empty">>}
                [] ~IsUuid(data.categoryId) -> {<<"categoryId", "Invalid category ID">>}
                [] OTHER -> {})
        \cup DateErrors(data.date, TRUE)
        \cup ReceiptUrlErrors(data.receiptUrl),
     value |-> [data EXCEPT !.amount = AmountValue(data.amount)]]

updateExpenseSchema(data) ==
    [errors |->
        AmountErrors(data.amount, "amount", FALSE, "Amount must be a number", "Amount must be positive")
        \cup DescriptionErrors(data.description, FALSE)
        \cup (CASE data.categoryId = Absent -> {<<"categoryId", "\"categoryId\" must be a string">>}
                [] data.categoryId = "" -> {<<"categoryId", "\"categoryId\" is not allowed to be empty">>}
                [] OTHER -> {})
        \cup DateErrors(data.date, FALSE)
        \cup ReceiptUrlErrors(data.receiptUrl),
     value |-> [data EXCEPT !.amount = AmountValue(data.amount)]]

\* validateWithJoi: the field-keyed messages, or the converted value
validateWithJoi(validated) ==
    [success |-> validated.errors = {}, data |-> validated.value, errors |-> validated.errors]

\* Joi.string().min(2).max(50)
NameErrors(x, required) ==
    CASE x = UndefinedStr -> IF required THEN {<<"name", "Category name is required">>} ELSE {}
      [] x = Absent -> {<<"name", "\"name\" must be a string">>}
      [] x = "" -> {<<"name", "\"name\" is not allowed to be empty">>}
      [] Len(x) < 2 -> {<<"name", "Category name must be at least 2 characters">>}
      [] Len(x) > 50 -> {<<"name", "Category name must not exceed 50 characters">>}
      [] OTHER -> {}

\* Joi.string().pattern(/^#([A-Fa-f0-9]{6}|[A-Fa-f0-9]{3})$/)
ColorErrors(x) ==
    CASE x = UndefinedStr -> {}
      [] x = Absent -> {<<"color", "\"color\" must be a string">>}
      [] x = "" -> {<<"color", "\"color\" is not allowed to be empty">>}
      [] ~IsHexColor(x) -> {<<"color", "Color must be a valid hex color (e.g., #FF0000)">>}
      [] OTHER -> {}

\* Joi.string().max(10).optional().allow(null, "")
IconErrors(x) ==
    IF x \in {UndefinedStr, NullStr, ""} \/ Len(x) <= 10 THEN {}
    ELSE {<<"icon", "Icon must not exceed 10 characters">>}

\* Joi.number().positive().precision(2).optional().allow(null)
BudgetErrors(x) ==
    CASE x.k \in {"undefined", "null"} -> {}
      [] x.k = "number" ->
           IF RoundToPrecision(x.v) > 0 THEN {} ELSE {<<"budget", "Budget must be positive">>}
      [] OTHER -> {<<"budget", "\"budget\" must be a number">>}

createCategorySchema(data) ==
    [errors |-> NameErrors(data.name, TRUE) \cup ColorErrors(data.color)
                \cup IconErrors(data.icon) \cup BudgetErrors(data.budget),
     value |-> [data EXCEPT !.color = IF data.color = UndefinedStr THEN "#3B82F6" ELSE data.color,
                            !.budget = AmountValue(data.budget)]]

updateCategorySchema(data) ==
    [errors |-> NameErrors(data.name, FALSE) \cup ColorErrors(data.color)
                \cup IconErrors(data.icon) \cup BudgetErrors(data.budget),
     value |-> [data EXCEPT !.budget = AmountValue(data.budget)]]

(* ----------------------------- results -------------------------------- *)
NoResult ==
    [tag |-> "none", message |-> "", fields |-> {}, count |-> 0,
     expenses |-> <<>>, categories |-> <<>>, total |-> 0, hasMore |-> FALSE,
     groups |-> <<>>, stats |-> <<>>]

\* { error: "..." }
ErrorString(m) == [NoResult EXCEPT !.tag = "error", !.message = m]
\* { error: { field: [messages] } }
ErrorFields(fs) == [NoResult EXCEPT !.tag = "error", !.fields = fs]
\* throw new Error(m), or a collaborator's exception leaving the handler
Thrown(m) == [NoResult EXCEPT !.tag = "throws", !.message = m]
CollaboratorError == "collaborator failure"
\* { success: true }
Success == [NoResult EXCEPT !.tag = "success"]
SuccessCount(n) == [NoResult EXCEPT !.tag = "success", !.count = n]
SuccessExpense(row) == [NoResult EXCEPT !.tag = "success", !.expenses = <<row>>]
SuccessCategory(row) == [NoResult EXCEPT !.tag = "success", !.categories = <<row>>]

\* what a handler call leaves behind: the tables, the collaborator calls it made
\* in order ("throw" follows the call that failed), and what it gave the caller
Outcome(usrs, cats, exps, trace, res) ==
    [users |-> usrs, categories |-> cats, expenses |-> exps, trace |-> trace, res |-> res]
Return(trace, res) == Outcome(users, categories, expenses, trace, res)

(* --------------------------- persistence ------------------------------ *)
\* include: { category: true }
WithCategory(e) ==
    [e EXCEPT !.category = {c \in categories : c.id = e.categoryId}]
\* a count of every expense there is, whatever its category
ExpenseCountOfAll(categoryId) == Cardinality(expenses)
\* _count: { select: { expenses: true } }
ExpenseCount(categoryId) == Cardinality({e \in expenses : e.categoryId = categoryId})
WithCount(c) == [c EXCEPT !.count = ExpenseCount(c.id)]

ExpenseRow(id, v, userId) ==
    [id |-> id, amount |-> v.amount.v, description |-> v.description,
     categoryId |-> v.categoryId, date |-> v.date.v, receiptUrl |-> v.receiptUrl,
     userId |-> userId, category |-> {}]
CategoryRow(id, v, userId) ==
    [id |-> id, name |-> v.name, color |-> v.color, icon |-> v.icon, budget |-> v.budget,
     userId |-> userId, count |-> 0, expenses |-> <<>>]

\* findFirst({ where: { id, userId } })
FindExpense(id, userId) == {e \in expenses : e.id = id /\ e.userId = userId}
FindCategory(id, userId) == {c \in categories : c.id = id /\ c.userId = userId}
\* a lookup by name that forgets whose category it is
FindCategoryByNameOfAnyone(userId, name) == {c \in categories : c.name = name}
\* findMany({ where: { userId } })
FindExpenseOf(userId) == {e \in expenses : e.userId = userId}
FindCategoryOf(userId) == {c \in categories : c.userId = userId}
\* findUnique({ where: { userId_name } })
FindCategoryByName(userId, name) == {c \in categories : c.userId = userId /\ c.name = name}

\* the store's referential check on Expense.categoryId (the schema is not part of
\* the sources; the design calls the category link "not a foreign-key constraint")
ForeignKeyEnforced == FALSE
ForeignKeyViolated(categoryId) ==
    ForeignKeyEnforced /\ ~\E c \in categories : c.id = categoryId

(* ------------------------- expense mutations -------------------------- *)
\* the data object createExpense reads off the form
CreateExpenseData(formData) ==
    [amount |-> parseFloat(formData.amount),
     description |-> formData.description,
     categoryId |-> formData.categoryId,
     date |-> NewDate(formData.date),
     receiptUrl |-> IF formData.receiptUrl \in {Absent, ""} THEN NullStr ELSE formData.receiptUrl]

createExpense(session, formData, fault) ==
    IF fault = "auth" THEN Return(<<"auth", "throw">>, Thrown(CollaboratorError))
    ELSE IF session = NoSession THEN Return(<<"auth">>, ErrorString("Unauthorized"))
    ELSE
    LET data == CreateExpenseData(formData)
        validated == createExpenseSchema(data)
        row == ExpenseRow(ExpenseId(nextExpense), validated.value, session)
    IN  IF validated.errors # {} THEN Return(<<"auth">>, ErrorFields(validated.errors))
        ELSE IF fault = "expense.create" \/ ForeignKeyViolated(data.categoryId)
        THEN Return(<<"auth", "expense.create", "throw">>,
                    ErrorFields({<<"_form", "Failed to create expense">>}))
        ELSE Outcome(users, categories, expenses \cup {row},
                     <<"auth", "expense.create", "revalidatePath /dashboard">>,
                     SuccessExpense(WithCategory(row)))

\* the keys updateExpense copies from the form: formData.has(k)
UpdateExpenseData(formData) ==
    [amount |-> IF formData.amount = Absent THEN Undefined ELSE parseFloat(formData.amount),
     description |-> IF formData.description = Absent THEN UndefinedStr ELSE formData.description,
     categoryId |-> IF formData.categoryId = Absent THEN UndefinedStr ELSE formData.categoryId,
     date |-> IF formData.date = Absent THEN Undefined ELSE NewDate(formData.date),
     receiptUrl |-> CASE formData.receiptUrl = Absent -> UndefinedStr
                      [] formData.receiptUrl = "" -> NullStr
                      [] OTHER -> formData.receiptUrl]

\* an update that takes a receipt the form does not carry to be none
UpdatedExpenseDroppingReceipt(e, v) ==
    [e EXCEPT !.amount = IF v.amount.k = "undefined" THEN @ ELSE v.amount.v,
              !.description = IF v.description = UndefinedStr THEN @ ELSE v.description,
              !.categoryId = IF v.categoryId = UndefinedStr THEN @ ELSE v.categoryId,
              !.date = IF v.date.k = "undefined" THEN @ ELSE v.date.v,
              !.receiptUrl = IF v.receiptUrl = UndefinedStr THEN NullStr ELSE v.receiptUrl]

\* prisma.expense.update({ data }) : the supplied keys overwrite, the others stay
UpdatedExpense(e, v) ==
    [e EXCEPT !.amount = IF v.amount.k = "undefined" THEN @ ELSE v.amount.v,
              !.description = IF v.description = UndefinedStr THEN @ ELSE v.description,
              !.categoryId = IF v.categoryId = UndefinedStr THEN @ ELSE v.categoryId,
              !.date = IF v.date.k = "undefined" THEN @ ELSE v.date.v,
              !.receiptUrl = IF v.receiptUrl = UndefinedStr THEN @ ELSE v.receiptUrl]

UpdateExpenseFailed == ErrorFields({<<"_form", "Failed to update expense. Please try again.">>})

updateExpense(session, id, formData, fault) ==
    IF fault = "auth" THEN Return(<<"auth", "throw">>, UpdateExpenseFailed)
    ELSE IF session = NoSession
    THEN Return(<<"auth">>, ErrorFields({<<"_form", "You must be logged in to update expenses">>}))
    ELSE
    LET validation == validateWithJoi(updateExpenseSchema(UpdateExpenseData(formData)))
        existingExpense == FindExpense(id, session)
        checksCategory == validation.data.categoryId \notin {UndefinedStr, ""}
        afterFind == <<"auth", "expense.findFirst">>
                     \o (IF checksCategory THEN <<"category.findFirst">> ELSE <<>>)
    IN  IF ~validation.success THEN Return(<<"auth">>, ErrorFields(validation.errors))
        ELSE IF fault = "expense.findFirst"
        THEN Return(<<"auth", "expense.findFirst", "throw">>, UpdateExpenseFailed)
        ELSE IF existingExpense = {}
        THEN Return(<<"auth", "expense.findFirst">>, ErrorFields({<<"_form", "Expense not found">>}))
        ELSE IF checksCategory /\ fault = "category.findFirst"
        THEN Return(afterFind \o <<"throw">>, UpdateExpenseFailed)
        ELSE IF checksCategory /\ FindCategory(validation.data.categoryId, session) = {}
        THEN Return(afterFind, ErrorFields({<<"categoryId", "Invalid category selected">>}))
        ELSE IF fault = "expense.update"
        THEN Return(afterFind \o <<"expense.update", "throw">>, UpdateExpenseFailed)
        ELSE
        LET old == CHOOSE e \in expenses : e.id = id
            new == UpdatedExpense(old, validation.data)
        IN  Outcome(users, categories, (expenses \ {old}) \cup {new},
                    afterFind \o <<"expense.update", "revalidatePath /dashboard",
                                   "revalidatePath /dashboard/expenses">>,
                    SuccessExpense(WithCategory(new)))

\* deleteExpense with the lookup moved ahead of the session check
deleteExpenseLookupFirst(session, id, fault) ==
    LET failed == ErrorString("Failed to delete expense. Please try again.") IN
    IF fault = "auth" THEN Return(<<"auth", "throw">>, failed)
    ELSE IF fault = "expense.findFirst"
    THEN Return(<<"auth", "expense.findFirst", "throw">>, failed)
    ELSE IF session = NoSession
    THEN Return(<<"auth", "expense.findFirst">>,
                ErrorString("You must be logged in to delete expenses"))
    ELSE IF FindExpense(id, session) = {}
    THEN Return(<<"auth", "expense.findFirst">>, ErrorString("Expense not found"))
    ELSE IF fault = "expense.delete"
    THEN Return(<<"auth", "expense.findFirst", "expense.delete", "throw">>, failed)
    ELSE Outcome(users, categories, {e \in expenses : e.id # id},
                 <<"auth", "expense.findFirst", "expense.delete", "revalidatePath /dashboard",
                   "revalidatePath /dashboard/expenses">>,
                 Success)

deleteExpense(session, id, fault) ==
    LET failed == ErrorString("Failed to delete expense. Please try again.") IN
    IF fault = "auth" THEN Return(<<"auth", "throw">>, failed)
    ELSE IF session = NoSession
    THEN Return(<<"auth">>, ErrorString("You must be logged in to delete expenses"))
    ELSE IF fault = "expense.findFirst"
    THEN Return(<<"auth", "expense.findFirst", "throw">>, failed)
    ELSE IF FindExpense(id, session) = {}
    THEN Return(<<"auth", "expense.findFirst">>, ErrorString("Expense not found"))
    ELSE IF fault = "expense.delete"
    THEN Return(<<"auth", "expense.findFirst", "expense.delete", "throw">>, failed)
    ELSE Outcome(users, categories, {e \in expenses : e.id # id},
                 <<"auth", "expense.findFirst", "expense.delete", "revalidatePath /dashboard",
                   "revalidatePath /dashboard/expenses">>,
                 Success)

bulkDeleteExpenses(session, ids, fault) ==
    LET failed == ErrorString("Failed to delete expenses. Please try again.")
        matched == {e \in expenses : e.id \in ids /\ e.userId = session}
    IN
    IF fault = "auth" THEN Return(<<"auth", "throw">>, failed)
    ELSE IF session = NoSession
    THEN Return(<<"auth">>, ErrorString("You must be logged in to delete expenses"))
    ELSE IF fault = "expense.deleteMany"
    THEN Return(<<"auth", "expense.deleteMany", "throw">>, failed)
    ELSE Outcome(users, categories, expenses \ matched,
                 <<"auth", "expense.deleteMany", "revalidatePath /dashboard",
                   "revalidatePath /dashboard/expenses">>,
                 SuccessCount(Cardinality(matched)))

bulkUpdateCategory(session, ids, categoryId, fault) ==
    LET failed == ErrorString("Failed to update expenses. Please try again.")
        matched == {e \in expenses : e.id \in ids /\ e.userId = session}
    IN
    IF fault = "auth" THEN Return(<<"auth", "throw">>, failed)
    ELSE IF session = NoSession
    THEN Return(<<"auth">>, ErrorString("You must be logged in to update expenses"))
    ELSE IF fault = "category.findFirst"
    THEN Return(<<"auth", "category.findFirst", "throw">>, failed)
    ELSE IF FindCategory(categoryId, session) = {}
    THEN Return(<<"auth", "category.findFirst">>, ErrorString("Invalid category selected"))
    ELSE IF fault = "expense.updateMany"
    THEN Return(<<"auth", "category.findFirst", "expense.updateMany", "throw">>, failed)
    ELSE Outcome(users, categories,
                 (expenses \ matched) \cup {[e EXCEPT !.categoryId = categoryId] : e \in matched},
                 <<"auth", "category.findFirst", "expense.updateMany", "revalidatePath /dashboard",
                   "revalidatePath /dashboard/expenses">>,
                 SuccessCount(Cardinality(matched)))

\* a copy that keeps the date of the original
DuplicateKeepingDate(original, userId) ==
    [original EXCEPT !.id = ExpenseId(nextExpense),
                     !.description = original.description \o " (copy)",
                     !.userId = userId, !.category = {}]

\* the data duplicateExpense hands to prisma.expense.create
DuplicateData(original, userId) ==
    [id |-> ExpenseId(nextExpense),
     amount |-> original.amount,
     description |-> original.description \o " (copy)",
     categoryId |-> original.categoryId,
     date |-> now,
     receiptUrl |-> original.receiptUrl,
     userId |-> userId,
     category |-> {}]

duplicateExpense(session, id, fault) ==
    LET failed == ErrorString("Failed to duplicate expense. Please try again.")
        originalExpense == FindExpense(id, session)
    IN
    IF fault = "auth" THEN Return(<<"auth", "throw">>, failed)
    ELSE IF session = NoSession
    THEN Return(<<"auth">>, ErrorString("You must be logged in to duplicate expenses"))
    ELSE IF fault = "expense.findFirst"
    THEN Return(<<"auth", "expense.findFirst", "throw">>, failed)
    ELSE IF originalExpense = {}
    THEN Return(<<"auth", "expense.findFirst">>, ErrorString("Expense not found"))
    ELSE
    LET original == CHOOSE e \in originalExpense : TRUE
        duplicate == DuplicateData(original, session)
    IN  IF fault = "expense.create" \/ ForeignKeyViolated(original.categoryId)
        THEN Return(<<"auth", "expense.findFirst", "expense.create", "throw">>, failed)
        ELSE Outcome(users, categories, expenses \cup {duplicate},
                     <<"auth", "expense.findFirst", "expense.create", "revalidatePath /dashboard",
                       "revalidatePath /dashboard/expenses">>,
                     SuccessExpense(WithCategory(duplicate)))

(* ------------------------- category mutations ------------------------- *)
\* @@unique([userId, name]), the key findUnique({ where: { userId_name } }) reads
UniqueNameViolated(userId, name, id) ==
    \E c \in categories : c.userId = userId /\ c.name = name /\ c.id # id

CreateCategoryFailed == ErrorFields({<<"_form", "Failed to create category. Please try again.">>})
DuplicateCategoryName == ErrorFields({<<"name", "A category with this name already exists">>})

\* the data object createCategory reads off the form
CreateCategoryData(formData) ==
    [name |-> formData.name,
     color |-> IF formData.color \in {Absent, ""} THEN "#3B82F6" ELSE formData.color,
     icon |-> IF formData.icon \in {Absent, ""} THEN NullStr ELSE formData.icon,
     budget |-> IF formData.budget \in {Absent, ""} THEN Null ELSE parseFloat(formData.budget)]

createCategory(session, formData, fault) ==
    IF fault = "auth" THEN Return(<<"auth", "throw">>, CreateCategoryFailed)
    ELSE IF session = NoSession
    THEN Return(<<"auth">>, ErrorFields({<<"_form", "You must be logged in to create categories">>}))
    ELSE
    LET data == CreateCategoryData(formData)
        validation == validateWithJoi(createCategorySchema(data))
        category == CategoryRow(CategoryId(nextCategory), validation.data, session)
    IN  IF ~validation.success THEN Return(<<"auth">>, ErrorFields(validation.errors))
        ELSE IF fault = "category.findUnique"
        THEN Return(<<"auth", "category.findUnique", "throw">>, CreateCategoryFailed)
        ELSE IF FindCategoryByName(session, data.name) # {}
        THEN Return(<<"auth", "category.findUnique">>, DuplicateCategoryName)
        ELSE IF fault = "category.create" \/ UniqueNameViolated(session, category.name, category.id)
        THEN Return(<<"auth", "category.findUnique", "category.create", "throw">>,
                    CreateCategoryFailed)
        ELSE Outcome(users, categories \cup {category}, expenses,
                     <<"auth", "category.findUnique", "category.create",
                       "revalidatePath /dashboard", "revalidatePath /dashboard/categories">>,
                     SuccessCategory(category))

\* the keys updateCategory copies from the form: formData.has(k)
UpdateCategoryData(formData) ==
    [name |-> IF formData.name = Absent THEN UndefinedStr ELSE formData.name,
     color |-> IF formData.color = Absent THEN UndefinedStr ELSE formData.color,
     icon |-> CASE formData.icon = Absent -> UndefinedStr
                [] formData.icon = "" -> NullStr
                [] OTHER -> formData.icon,
     budget |-> CASE formData.budget = Absent -> Undefined
                  [] formData.budget = "" -> Null
                  [] OTHER -> parseFloat(formData.budget)]

\* prisma.category.update({ data }) : the supplied keys overwrite, the others stay
UpdatedCategory(c, v) ==
    [c EXCEPT !.name = IF v.name = UndefinedStr THEN @ ELSE v.name,
              !.color = IF v.color = UndefinedStr THEN @ ELSE v.color,
              !.icon = IF v.icon = UndefinedStr THEN @ ELSE v.icon,
              !.budget = IF v.budget.k = "undefined" THEN @ ELSE v.budget]

UpdateCategoryFailed == ErrorFields({<<"_form", "Failed to update category. Please try again.">>})

updateCategory(session, id, formData, fault) ==
    IF fault = "auth" THEN Return(<<"auth", "throw">>, UpdateCategoryFailed)
    ELSE IF session = NoSession
    THEN Return(<<"auth">>, ErrorFields({<<"_form", "You must be logged in to update categories">>}))
    ELSE
    LET validation == validateWithJoi(updateCategorySchema(UpdateCategoryData(formData)))
        existingCategory == FindCategory(id, session)
        renames == /\ validation.data.name \notin {UndefinedStr, ""}
                   /\ \E c \in existingCategory : validation.data.name # c.name
        afterFind == <<"auth", "category.findFirst">>
                     \o (IF renames THEN <<"category.findUnique">> ELSE <<>>)
    IN  IF ~validation.success THEN Return(<<"auth">>, ErrorFields(validation.errors))
        ELSE IF fault = "category.findFirst"
        THEN Return(<<"auth", "category.findFirst", "throw">>, UpdateCategoryFailed)
        ELSE IF existingCategory = {}
        THEN Return(<<"auth", "category.findFirst">>, ErrorFields({<<"_form", "Category not found">>}))
        ELSE IF renames /\ fault = "category.findUnique"
        THEN Return(afterFind \o <<"throw">>, UpdateCategoryFailed)
        ELSE IF renames /\ FindCategoryByName(session, validation.data.name) # {}
        THEN Return(afterFind, DuplicateCategoryName)
        ELSE
        LET old == CHOOSE c \in categories : c.id = id
            new == UpdatedCategory(old, validation.data)
        IN  IF fault = "category.update" \/ UniqueNameViolated(new.userId, new.name, id)
            THEN Return(afterFind \o <<"category.update", "throw">>, UpdateCategoryFailed)
            ELSE Outcome(users, (categories \ {old}) \cup {new}, expenses,
                         afterFind \o <<"category.update", "revalidatePath /dashboard",
                                        "revalidatePath /dashboard/categories">>,
                         SuccessCategory(new))

\* deleteCategory without the look at the expense count
deleteCategoryUncounted(session, id, fault) ==
    LET failed == ErrorString("Failed to delete category. Please try again.")
        category == FindCategory(id, session)
    IN
    IF fault = "auth" THEN Return(<<"auth", "throw">>, failed)
    ELSE IF session = NoSession
    THEN Return(<<"auth">>, ErrorString("You must be logged in to delete categories"))
    ELSE IF fault = "category.findFirst"
    THEN Return(<<"auth", "category.findFirst", "throw">>, failed)
    ELSE IF category = {}
    THEN Return(<<"auth", "category.findFirst">>, ErrorString("Category not found"))
    ELSE IF fault = "category.delete"
    THEN Return(<<"auth", "category.findFirst", "category.delete", "throw">>, failed)
    ELSE Outcome(users, {c \in categories : c.id # id}, expenses,
                 <<"auth", "category.findFirst", "category.delete", "revalidatePath /dashboard",
                   "revalidatePath /dashboard/categories">>,
                 Success)

deleteCategory(session, id, fault) ==
    LET failed == ErrorString("Failed to delete category. Please try again.")
        category == FindCategory(id, session)
        count == ExpenseCount(id)
    IN
    IF fault = "auth" THEN Return(<<"auth", "throw">>, failed)
    ELSE IF session = NoSession
    THEN Return(<<"auth">>, ErrorString("You must be logged in to delete categories"))
    ELSE IF fault = "category.findFirst"
    THEN Return(<<"auth", "category.findFirst", "throw">>, failed)
    ELSE IF category = {}
    THEN Return(<<"auth", "category.findFirst">>, ErrorString("Category not found"))
    ELSE IF count > 0
    THEN Return(<<"auth", "category.findFirst">>,
                ErrorString("Cannot delete category with " \o ToString(count)
                            \o " expense(s). Please delete or reassign the expenses first."))
    ELSE IF fault = "category.delete"
    THEN Return(<<"auth", "category.findFirst", "category.delete", "throw">>, failed)
    ELSE Outcome(users, {c \in categories : c.id # id}, expenses,
                 <<"auth", "category.findFirst", "category.delete", "revalidatePath /dashboard",
                   "revalidatePath /dashboard/categories">>,
                 Success)

\* a bulk deletion that skips the categories with expenses and deletes the rest
bulkDeleteCategoriesWithoutExpenses(session, ids, fault) ==
    LET failed == ErrorString("Failed to delete categories. Please try again.")
        matched == {c \in categories : c.id \in ids /\ c.userId = session}
        categoriesWithExpenses == {c \in matched : ExpenseCount(c.id) > 0}
        n == Cardinality(categoriesWithExpenses)
    IN
    IF fault = "auth" THEN Return(<<"auth", "throw">>, failed)
    ELSE IF session = NoSession
    THEN Return(<<"auth">>, ErrorString("You must be logged in to delete categories"))
    ELSE IF fault = "category.findMany"
    THEN Return(<<"auth", "category.findMany", "throw">>, failed)
    ELSE IF fault = "category.deleteMany"
    THEN Return(<<"auth", "category.findMany", "category.deleteMany", "throw">>, failed)
    ELSE Outcome(users, categories \ (matched \ categoriesWithExpenses), expenses,
                 <<"auth", "category.findMany", "category.deleteMany", "revalidatePath /dashboard",
                   "revalidatePath /dashboard/categories">>,
                 SuccessCount(Cardinality(matched \ categoriesWithExpenses)))

bulkDeleteCategories(session, ids, fault) ==
    LET failed == ErrorString("Failed to delete categories. Please try again.")
        matched == {c \in categories : c.id \in ids /\ c.userId = session}
        categoriesWithExpenses == {c \in matched : ExpenseCount(c.id) > 0}
        n == Cardinality(categoriesWithExpenses)
    IN
    IF fault = "auth" THEN Return(<<"auth", "throw">>, failed)
    ELSE IF session = NoSession
    THEN Return(<<"auth">>, ErrorString("You must be logged in to delete categories"))
    ELSE IF fault = "category.findMany"
    THEN Return(<<"auth", "category.findMany", "throw">>, failed)
    ELSE IF n > 0
    THEN Return(<<"auth", "category.findMany">>,
                ErrorString("Cannot delete " \o ToString(n) \o " categor"
                            \o (IF n = 1 THEN "y" ELSE "ies") \o " with expenses"))
    ELSE IF fault = "category.deleteMany"
    THEN Return(<<"auth", "category.findMany", "category.deleteMany", "throw">>, failed)
    ELSE Outcome(users, categories \ matched, expenses,
                 <<"auth", "category.findMany", "category.deleteMany", "revalidatePath /dashboard",
                   "revalidatePath /dashboard/categories">>,
                 SuccessCount(Cardinality(matched)))

(* ---------------------------- registration ---------------------------- *)
\* registerSchema (lib/validations/auth): an email address, a name, a password of
\* a minimum length
registerSchema(data) ==
    [errors |-> (IF data.email = "not-an-email"
                 THEN {<<"email", "\"email\" must be a valid email">>} ELSE {})
                \cup (IF data.password = "short"
                      THEN {<<"password", "\"password\" is too short">>} ELSE {}),
     value |-> data]

register(formData, fault) ==
    LET validation == validateWithJoi(registerSchema(formData))
        existingUser == {u \in users : u.email = validation.data.email}
        user == [id |-> UserId(nextUser), email |-> validation.data.email,
                 name |-> validation.data.name,
                 passwordHash |-> "bcrypt:" \o validation.data.password]
    IN
    IF ~validation.success THEN Return(<<>>, ErrorFields(validation.errors))
    ELSE IF fault = "user.findUnique"
    THEN Return(<<"user.findUnique", "throw">>, Thrown(CollaboratorError))
    ELSE IF existingUser # {}
    THEN Return(<<"user.findUnique">>, ErrorFields({<<"email", "Email already registered">>}))
    ELSE IF fault = "bcrypt.hash"
    THEN Return(<<"user.findUnique", "bcrypt.hash", "throw">>, Thrown(CollaboratorError))
    ELSE IF fault = "user.create"
    THEN Return(<<"user.findUnique", "bcrypt.hash", "user.create", "throw">>,
                ErrorFields({<<"_form", "Something went wrong. Please try again.">>}))
    ELSE Outcome(users \cup {user}, categories, expenses,
                 <<"user.findUnique", "bcrypt.hash", "user.create">>,
                 Success)

(* ------------------------------ queries ------------------------------- *)
\* the calendar behind new Date(y, m, d): ticks since the start of a year
TicksPerDay == 2
DaysPerMonth == 30
MonthsPerYear == 12
StartOfDay(t) == (t \div TicksPerDay) * TicksPerDay
StartOfMonth(t) == (t \div (TicksPerDay * DaysPerMonth)) * (TicksPerDay * DaysPerMonth)
StartOfYear(t) ==
    (t \div (TicksPerDay * DaysPerMonth * MonthsPerYear)) * (TicksPerDay * DaysPerMonth * MonthsPerYear)
\* Math.ceil(a / b)
CeilDiv(a, b) == -((-a) \div b)
\* a / b as JS computes it: a quotient, or Infinity or NaN when b is 0
Ratio(a, b) == [num |-> a, den |-> b]

\* the store's collation of the texts the model uses
CharRank(c) ==
    CASE c = "C" -> 3 [] c = "F" -> 6 [] c = "R" -> 18 [] c = "T" -> 20 [] OTHER -> 0
Collate(text) == IF text = "" THEN 0 ELSE CharRank(SubSeq(text, 1, 1)) * 1000 + Len(text)

\* String.prototype.toLowerCase on the letters the model's texts use
RECURSIVE ToLower(_)
ToLower(text) ==
    IF text = "" THEN ""
    ELSE LET c == SubSeq(text, 1, 1)
             l == CASE c = "C" -> "c" [] c = "F" -> "f" [] c = "R" -> "r" [] c = "T" -> "t"
                    [] OTHER -> c
         IN  l \o ToLower(SubSeq(text, 2, Len(text)))

\* { contains: query, mode: "insensitive" }
ContainsInsensitive(text, query) ==
    \E i \in 1..(Len(text) - Len(query) + 1) :
        ToLower(SubSeq(text, i, i + Len(query) - 1)) = ToLower(query)

SortKey(e, sortBy) ==
    CASE sortBy = "date" -> e.date
      [] sortBy = "amount" -> e.amount
      [] sortBy = "description" -> Collate(e.description)
      [] sortBy = "name" -> Collate(e.name)

Position(id, tie) == CHOOSE i \in 1..Len(tie) : tie[i] = id

\* orderBy: { [sortBy]: sortOrder }; rows with equal keys come in the order the
\* store happens to produce, which is the order of their ids in tie
ComesFirst(a, b, sortBy, sortOrder, tie) ==
    \/ sortOrder = "asc" /\ SortKey(a, sortBy) < SortKey(b, sortBy)
    \/ sortOrder = "desc" /\ SortKey(a, sortBy) > SortKey(b, sortBy)
    \/ SortKey(a, sortBy) = SortKey(b, sortBy) /\ Position(a.id, tie) < Position(b.id, tie)

RECURSIVE OrderBy(_, _, _, _)
OrderBy(rows, sortBy, sortOrder, tie) ==
    IF rows = {} THEN <<>>
    ELSE LET first == CHOOSE a \in rows :
                          \A b \in rows \ {a} : ComesFirst(a, b, sortBy, sortOrder, tie)
         IN  <<first>> \o OrderBy(rows \ {first}, sortBy, sortOrder, tie)

\* take: limit, skip: offset
TakeSkip(rows, limit, offset) ==
    SubSeq(rows, offset + 1, IF offset + limit < Len(rows) THEN offset + limit ELSE Len(rows))

RECURSIVE SumAmounts(_)
SumAmounts(rows) ==
    IF rows = {} THEN 0
    ELSE LET e == CHOOSE e \in rows : TRUE IN e.amount + SumAmounts(rows \ {e})

\* the rows of a findMany, each with its relation or count
IncludeCategory(rows) == [i \in 1..Len(rows) |-> WithCategory(rows[i])]
IncludeCount(rows) == [i \in 1..Len(rows) |-> WithCount(rows[i])]

\* the where clause getExpenses builds from its options
GetExpensesWhere(e, session, options) ==
    /\ e.userId = session
    /\ options.categoryId \in {UndefinedStr, ""} \/ e.categoryId = options.categoryId
    /\ options.startDate.k = "undefined" \/ e.date >= options.startDate.v
    /\ options.endDate.k = "undefined" \/ e.date <= options.endDate.v
    /\ options.search \in {UndefinedStr, ""} \/ ContainsInsensitive(e.description, options.search)

\* a hasMore that also counts the last row of the last page as more
HasMoreInclusive(offset, returned, total) == offset + returned <= total

\* hasMore: offset + expenses.length < total
HasMore(offset, returned, total) == offset + returned < total

getExpenses(session, options, tie, fault) ==
    LET limit == IF options.limit.k = "undefined" THEN 50 ELSE options.limit.v
        offset == IF options.offset.k = "undefined" THEN 0 ELSE options.offset.v
        sortBy == IF options.sortBy = UndefinedStr THEN "date" ELSE options.sortBy
        sortOrder == IF options.sortOrder = UndefinedStr THEN "desc" ELSE options.sortOrder
        matched == {e \in expenses : GetExpensesWhere(e, session, options)}
        found == IncludeCategory(TakeSkip(OrderBy(matched, sortBy, sortOrder, tie), limit, offset))
        total == Cardinality(matched)
    IN
    IF fault = "auth" THEN Return(<<"auth", "throw">>, Thrown(CollaboratorError))
    ELSE IF session = NoSession THEN Return(<<"auth">>, Thrown("Unauthorized"))
    ELSE IF fault \in {"expense.findMany", "expense.count"}
    THEN Return(<<"auth", "expense.findMany", "expense.count", "throw">>, Thrown(CollaboratorError))
    ELSE Return(<<"auth", "expense.findMany", "expense.count">>,
                [NoResult EXCEPT !.tag = "returns", !.expenses = found, !.total = total,
                                 !.hasMore = HasMore(offset, Len(found), total)])

getExpense(session, id, fault) ==
    IF fault = "auth" THEN Return(<<"auth", "throw">>, Thrown(CollaboratorError))
    ELSE IF session = NoSession THEN Return(<<"auth">>, Thrown("Unauthorized"))
    ELSE IF fault = "expense.findFirst"
    THEN Return(<<"auth", "expense.findFirst", "throw">>, Thrown(CollaboratorError))
    ELSE IF FindExpense(id, session) = {}
    THEN Return(<<"auth", "expense.findFirst">>, Thrown("Expense not found"))
    ELSE Return(<<"auth", "expense.findFirst">>,
                [NoResult EXCEPT !.tag = "returns",
                                 !.expenses = <<WithCategory(CHOOSE e \in FindExpense(id, session) : TRUE)>>])

PeriodStart(period, t) ==
    CASE period = "week" -> StartOfDay(t) - 7 * TicksPerDay
      [] period = "month" -> StartOfMonth(t)
      [] period = "year" -> StartOfYear(t)

\* the per-category reduction of getExpenseStats, keyed by category name; a key's
\* colour and icon come from the first row that has it
ByCategory(rows) ==
    LET names == {rows[i].category.name : i \in 1..Len(rows)} IN
    {LET first == rows[CHOOSE i \in 1..Len(rows) :
                          /\ rows[i].category.name = n
                          /\ \A j \in 1..(i - 1) : rows[j].category.name # n]
         members == {rows[i] : i \in {j \in 1..Len(rows) : rows[j].category.name = n}}
     IN  [name |-> n, color |-> first.category.color, icon |-> first.category.icon,
          total |-> SumAmounts(members), count |-> Cardinality(members)] : n \in names}

\* include: { category: true } as the reductions read it: the row or null
CategoryOf(e) ==
    IF \E c \in categories : c.id = e.categoryId
    THEN [e EXCEPT !.category = CHOOSE c \in categories : c.id = e.categoryId]
    ELSE [e EXCEPT !.category = Null]

IncludeCategoryOf(rows) == [i \in 1..Len(rows) |-> CategoryOf(rows[i])]

getExpenseStats(session, period, tie, fault) ==
    LET startDate == PeriodStart(period, now)
        found == {e \in expenses : e.userId = session /\ e.date >= startDate /\ e.date <= now}
        rows == IncludeCategoryOf(OrderBy(found, "date", "asc", tie))
        total == SumAmounts(found)
        days == CeilDiv(now - startDate, TicksPerDay)
        previousStartDate == startDate - (now - startDate)
        previousExpenses == {e \in expenses : /\ e.userId = session
                                              /\ e.date >= previousStartDate
                                              /\ e.date < startDate}
        previousTotal == SumAmounts(previousExpenses)
    IN
    IF fault = "auth" THEN Return(<<"auth", "throw">>, Thrown(CollaboratorError))
    ELSE IF session = NoSession THEN Return(<<"auth">>, Thrown("Unauthorized"))
    ELSE IF fault = "expense.findMany"
    THEN Return(<<"auth", "expense.findMany", "throw">>, Thrown(CollaboratorError))
    ELSE IF \E i \in 1..Len(rows) : rows[i].category = Null
    THEN Return(<<"auth", "expense.findMany">>, Thrown("TypeError"))
    ELSE IF fault = "expense.findMany again"
    THEN Return(<<"auth", "expense.findMany", "expense.findMany", "throw">>,
                Thrown(CollaboratorError))
    ELSE Return(<<"auth", "expense.findMany", "expense.findMany">>,
                [NoResult EXCEPT
                    !.tag = "returns",
                    !.stats = [total |-> total, count |-> Cardinality(found), days |-> days,
                               averagePerDay |-> Ratio(total, days),
                               byCategory |-> ByCategory(rows),
                               percentageChange |->
                                   IF previousTotal > 0
                                   THEN Ratio((total - previousTotal) * 100, previousTotal)
                                   ELSE Ratio(0, 1),
                               previousTotal |-> previousTotal]])

\* expense.date.toISOString().split("T")[0]
DateKey(t) == t \div TicksPerDay

getExpensesByDateRange(session, startDate, endDate, tie, fault) ==
    LET found == {e \in expenses : e.userId = session /\ e.date >= startDate /\ e.date <= endDate}
        rows == IncludeCategory(OrderBy(found, "date", "asc", tie))
        keys == {DateKey(e.date) : e \in found}
        Bucket(k) ==
            LET members == SelectSeq(rows, LAMBDA e : DateKey(e.date) = k)
            IN  [date |-> k, total |-> SumAmounts({e \in found : DateKey(e.date) = k}),
                 expenses |-> members]
        RECURSIVE Buckets(_)
        Buckets(ks) ==
            IF ks = {} THEN <<>>
            ELSE LET k == CHOOSE k \in ks : \A other \in ks : k <= other
                 IN  <<Bucket(k)>> \o Buckets(ks \ {k})
    IN
    IF fault = "auth" THEN Return(<<"auth", "throw">>, Thrown(CollaboratorError))
    ELSE IF session = NoSession THEN Return(<<"auth">>, Thrown("Unauthorized"))
    ELSE IF fault = "expense.findMany"
    THEN Return(<<"auth", "expense.findMany", "throw">>, Thrown(CollaboratorError))
    ELSE Return(<<"auth", "expense.findMany">>,
                [NoResult EXCEPT !.tag = "returns", !.groups = Buckets(keys)])

searchExpenses(session, query, limit, tie, fault) ==
    LET found == {e \in expenses : e.userId = session /\ ContainsInsensitive(e.description, query)}
    IN
    IF fault = "auth" THEN Return(<<"auth", "throw">>, Thrown(CollaboratorError))
    ELSE IF session = NoSession THEN Return(<<"auth">>, Thrown("Unauthorized"))
    ELSE IF fault = "expense.findMany"
    THEN Return(<<"auth", "expense.findMany", "throw">>, Thrown(CollaboratorError))
    ELSE Return(<<"auth", "expense.findMany">>,
                [NoResult EXCEPT
                    !.tag = "returns",
                    !.expenses = IncludeCategory(TakeSkip(OrderBy(found, "date", "desc", tie), limit, 0))])

getRecentExpenses(session, limit, tie, fault) ==
    LET found == {e \in expenses : e.userId = session} IN
    IF fault = "auth" THEN Return(<<"auth", "throw">>, Thrown(CollaboratorError))
    ELSE IF session = NoSession THEN Return(<<"auth">>, Thrown("Unauthorized"))
    ELSE IF fault = "expense.findMany"
    THEN Return(<<"auth", "expense.findMany", "throw">>, Thrown(CollaboratorError))
    ELSE Return(<<"auth", "expense.findMany">>,
                [NoResult EXCEPT
                    !.tag = "returns",
                    !.expenses = IncludeCategory(TakeSkip(OrderBy(found, "date", "desc", tie), limit, 0))])

getCategories(session, fault) ==
    LET found == {c \in categories : c.userId = session} IN
    IF fault = "auth" THEN Return(<<"auth", "throw">>, Thrown(CollaboratorError))
    ELSE IF session = NoSession THEN Return(<<"auth">>, Thrown("Unauthorized"))
    ELSE IF fault = "category.findMany"
    THEN Return(<<"auth", "category.findMany", "throw">>, Thrown(CollaboratorError))
    ELSE Return(<<"auth", "category.findMany">>,
                [NoResult EXCEPT
                    !.tag = "returns",
                    !.categories = IncludeCount(OrderBy(found, "name", "asc", <<>>))])

getCategory(session, id, tie, fault) ==
    LET found == FindCategory(id, session)
        category == CHOOSE c \in found : TRUE
        included == TakeSkip(OrderBy({e \in expenses : e.categoryId = id}, "date", "desc", tie),
                             10, 0)
    IN
    IF fault = "auth" THEN Return(<<"auth", "throw">>, Thrown(CollaboratorError))
    ELSE IF session = NoSession THEN Return(<<"auth">>, Thrown("Unauthorized"))
    ELSE IF fault = "category.findFirst"
    THEN Return(<<"auth", "category.findFirst", "throw">>, Thrown(CollaboratorError))
    ELSE IF found = {}
    THEN Return(<<"auth", "category.findFirst">>, Thrown("Category not found"))
    ELSE Return(<<"auth", "category.findFirst">>,
                [NoResult EXCEPT
                    !.tag = "returns",
                    !.categories = <<[WithCount(category) EXCEPT !.expenses = included]>>])

getCategoryStats(session, id, fault) ==
    LET found == FindCategory(id, session)
        category == CHOOSE c \in found : TRUE
        included == {e \in expenses : e.categoryId = id}
        totalSpent == SumAmounts(included)
        startOfMonth == StartOfMonth(now)
        monthlySpent == SumAmounts({e \in included : e.date >= startOfMonth})
        hasBudget == category.budget.k = "number" /\ category.budget.v # 0
    IN
    IF fault = "auth" THEN Return(<<"auth", "throw">>, Thrown(CollaboratorError))
    ELSE IF session = NoSession THEN Return(<<"auth">>, Thrown("Unauthorized"))
    ELSE IF fault = "category.findFirst"
    THEN Return(<<"auth", "category.findFirst", "throw">>, Thrown(CollaboratorError))
    ELSE IF found = {}
    THEN Return(<<"auth", "category.findFirst">>, Thrown("Category not found"))
    ELSE Return(<<"auth", "category.findFirst">>,
                [NoResult EXCEPT
                    !.tag = "returns",
                    !.stats = [totalSpent |-> totalSpent, monthlySpent |-> monthlySpent,
                               budgetRemaining |->
                                   IF hasBudget THEN Number(category.budget.v - monthlySpent)
                                   ELSE Null,
                               budgetPercentage |->
                                   IF hasBudget THEN Ratio(monthlySpent * 100, category.budget.v)
                                   ELSE Null,
                               expenseCount |-> Cardinality(included),
                               budget |-> IF hasBudget THEN category.budget ELSE Null]])

(* ------------------------------ inputs -------------------------------- *)
\* auth(): the signed-in user of the request, or no session
SignedIn == {u.id : u \in users}

\* the requests a handler is tried with: every signed-in user with every argument,
\* and, with the probe arguments, no session and each failing collaborator call
Requests(args, probe, faults) ==
    {[session |-> s, args |-> a, fault |-> "none"] : s \in SignedIn, a \in args}
    \cup {[session |-> NoSession, args |-> a, fault |-> "none"] : a \in probe}
    \cup {[session |-> s, args |-> a, fault |-> f] : s \in SignedIn, a \in probe, f \in faults}

ExpenseIdsInput == {e.id : e \in expenses} \cup {UnknownExpenseId}
CategoryIdsInput == {c.id : c \in categories} \cup {UnknownCategoryId}

\* the orders in which the store may produce rows whose sort keys are equal
TieOrders ==
    LET ids == {e.id : e \in expenses} IN
    {t \in [1..Cardinality(ids) -> ids] : \A i, j \in DOMAIN t : t[i] = t[j] => i = j}

ExpenseForm(categoryId) ==
    [amount |-> "45.50", description |-> "Coffee", categoryId |-> categoryId,
     date |-> DateText(0), receiptUrl |-> ""]
NoExpenseFields ==
    [amount |-> Absent, description |-> Absent, categoryId |-> Absent, date |-> Absent,
     receiptUrl |-> Absent]
CategoryForm(name) == [name |-> name, color |-> "#EF4444", icon |-> "", budget |-> "500"]
NoCategoryFields == [name |-> Absent, color |-> Absent, icon |-> Absent, budget |-> Absent]
NoOptions ==
    [categoryId |-> UndefinedStr, startDate |-> Undefined, endDate |-> Undefined,
     search |-> UndefinedStr, limit |-> Undefined, offset |-> Undefined,
     sortBy |-> UndefinedStr, sortOrder |-> UndefinedStr]

RegisterForms ==
    {[name |-> "Bo", email |-> e, password |-> "password123"] :
        e \in {"seed@example.com", "bo@example.com", "not-an-email"}}
    \cup {[name |-> "Bo", email |-> "bo@example.com", password |-> "short"]}

\* a valid form for every category, and a form with a wrong amount
CreateExpenseForms ==
    {ExpenseForm(c.id) : c \in categories}
    \cup {[ExpenseForm(CategoryId(1)) EXCEPT !.amount = "-5"]}
UpdateExpenseForms ==
    {[NoExpenseFields EXCEPT !.categoryId = c] : c \in CategoryIdsInput}
    \cup {[NoExpenseFields EXCEPT !.amount = "-5"]}
CreateCategoryForms == {CategoryForm("Food"), CategoryForm("F")}
UpdateCategoryForms ==
    {[NoCategoryFields EXCEPT !.color = c] : c \in {"#EF4444", "red"}}
GetExpensesOptions ==
    {NoOptions, [NoOptions EXCEPT !.limit = Number(1)]}

(* ------------------------------ actions ------------------------------- *)
\* one handler call: the tables it leaves, and the record of the call
Returned(op, session, args, outcome) ==
    /\ users' = outcome.users
    /\ categories' = outcome.categories
    /\ expenses' = outcome.expenses
    /\ nextUser' = IF outcome.users # users THEN nextUser + 1 ELSE nextUser
    /\ nextCategory' = IF \E c \in outcome.categories : c.id = CategoryId(nextCategory)
                       THEN nextCategory + 1 ELSE nextCategory
    /\ nextExpense' = IF \E e \in outcome.expenses : e.id = ExpenseId(nextExpense)
                      THEN nextExpense + 1 ELSE nextExpense
    /\ now' = now
    /\ last' = [op |-> op, session |-> session, args |-> args,
                trace |-> outcome.trace, res |-> outcome.res]

\* a handler that runs from its first line to its return with no other request
\* in between
Call(op, session, args, outcome) ==
    /\ Returned(op, session, args, outcome)
    /\ inflight' = inflight

RegisterWith(forms) ==
    \E formData \in forms,
       fault \in {"none", "user.findUnique", "bcrypt.hash", "user.create"} :
        Call("register", NoSession, [formData |-> formData], register(formData, fault))

\* the table holds at most MaxExpenses rows ever made: a call that would make one
\* more is left out
CreateExpenseWith(forms) ==
    \E r \in Requests({[formData |-> f] : f \in forms},
                      {[formData |-> ExpenseForm(CategoryId(1))]},
                      {"auth", "expense.create"}) :
        LET outcome == createExpense(r.session, r.args.formData, r.fault) IN
        /\ outcome.expenses # expenses => nextExpense <= MaxExpenses
        /\ Call("createExpense", r.session, r.args, outcome)

UpdateExpenseWith(forms) ==
    \E r \in Requests({[id |-> id, formData |-> f] : id \in ExpenseIdsInput, f \in forms},
                      {[id |-> ExpenseId(1),
                        formData |-> [NoExpenseFields EXCEPT !.categoryId = CategoryId(1)]]},
                      {"auth", "expense.findFirst", "category.findFirst", "expense.update"}) :
        Call("updateExpense", r.session, r.args,
             updateExpense(r.session, r.args.id, r.args.formData, r.fault))

DeleteExpense ==
    \E r \in Requests({[id |-> id] : id \in ExpenseIdsInput}, {[id |-> ExpenseId(1)]},
                      {"auth", "expense.findFirst", "expense.delete"}) :
        Call("deleteExpense", r.session, r.args, deleteExpense(r.session, r.args.id, r.fault))

BulkDeleteExpenses ==
    \E r \in Requests({[ids |-> ids] : ids \in {{e.id : e \in expenses}, {ExpenseId(2)}}},
                      {[ids |-> {ExpenseId(1)}]}, {"auth", "expense.deleteMany"}) :
        Call("bulkDeleteExpenses", r.session, r.args,
             bulkDeleteExpenses(r.session, r.args.ids, r.fault))

BulkUpdateCategory ==
    \E r \in Requests({[ids |-> ids, categoryId |-> c] :
                          ids \in {{e.id : e \in expenses}, {ExpenseId(1)}},
                          c \in CategoryIdsInput},
                      {[ids |-> {ExpenseId(1)}, categoryId |-> CategoryId(1)]},
                      {"auth", "category.findFirst", "expense.updateMany"}) :
        Call("bulkUpdateCategory", r.session, r.args,
             bulkUpdateCategory(r.session, r.args.ids, r.args.categoryId, r.fault))

DuplicateExpense ==
    \E r \in Requests({[id |-> id] : id \in ExpenseIdsInput}, {[id |-> ExpenseId(1)]},
                      {"auth", "expense.findFirst", "expense.create"}) :
        LET outcome == duplicateExpense(r.session, r.args.id, r.fault) IN
        /\ outcome.expenses # expenses => nextExpense <= MaxExpenses
        /\ Call("duplicateExpense", r.session, r.args, outcome)

\* likewise at most MaxCategories categories are ever made
CreateCategoryWith(forms) ==
    \E r \in Requests({[formData |-> f] : f \in forms}, {[formData |-> CategoryForm("Food")]},
                      {"auth", "category.findUnique", "category.create"}) :
        LET outcome == createCategory(r.session, r.args.formData, r.fault) IN
        /\ outcome.categories # categories => nextCategory <= MaxCategories
        /\ Call("createCategory", r.session, r.args, outcome)

UpdateCategoryWith(forms) ==
    \E r \in Requests({[id |-> id, formData |-> f] : id \in CategoryIdsInput, f \in forms},
                      {[id |-> CategoryId(1),
                        formData |-> [NoCategoryFields EXCEPT !.name = "Rent"]]},
                      {"auth", "category.findFirst", "category.findUnique", "category.update"}) :
        Call("updateCategory", r.session, r.args,
             updateCategory(r.session, r.args.id, r.args.formData, r.fault))

DeleteCategory ==
    \E r \in Requests({[id |-> id] : id \in CategoryIdsInput}, {[id |-> CategoryId(1)]},
                      {"auth", "category.findFirst", "category.delete"}) :
        Call("deleteCategory", r.session, r.args, deleteCategory(r.session, r.args.id, r.fault))

BulkDeleteCategories ==
    \E r \in Requests({[ids |-> ids] : ids \in {{c.id : c \in categories}, {CategoryId(2)}}},
                      {[ids |-> {CategoryId(1)}]},
                      {"auth", "category.findMany", "category.deleteMany"}) :
        Call("bulkDeleteCategories", r.session, r.args,
             bulkDeleteCategories(r.session, r.args.ids, r.fault))

GetExpensesWith(optionSets) ==
    \E r \in Requests({[options |-> o] : o \in optionSets}, {[options |-> NoOptions]},
                      {"auth", "expense.findMany", "expense.count"}),
       tie \in TieOrders :
        Call("getExpenses", r.session, r.args,
             getExpenses(r.session, r.args.options, tie, r.fault))

GetExpense ==
    \E r \in Requests({[id |-> id] : id \in ExpenseIdsInput}, {[id |-> ExpenseId(1)]},
                      {"auth", "expense.findFirst"}) :
        Call("getExpense", r.session, r.args, getExpense(r.session, r.args.id, r.fault))

GetExpenseStats ==
    \E r \in Requests({[period |-> p] : p \in {"week", "month", "year"}}, {[period |-> "month"]},
                      {"auth", "expense.findMany", "expense.findMany again"}),
       tie \in TieOrders :
        Call("getExpenseStats", r.session, r.args,
             getExpenseStats(r.session, r.args.period, tie, r.fault))

GetExpensesByDateRange ==
    \E r \in Requests({[startDate |-> 0, endDate |-> e] : e \in {0, MaxTime}},
                      {[startDate |-> 0, endDate |-> MaxTime]},
                      {"auth", "expense.findMany"}),
       tie \in TieOrders :
        Call("getExpensesByDateRange", r.session, r.args,
             getExpensesByDateRange(r.session, r.args.startDate, r.args.endDate, tie, r.fault))

SearchExpenses ==
    \E r \in Requests({[query |-> q, limit |-> 10] : q \in {"cof", "COPY"}},
                      {[query |-> "cof", limit |-> 10]}, {"auth", "expense.findMany"}),
       tie \in TieOrders :
        Call("searchExpenses", r.session, r.args,
             searchExpenses(r.session, r.args.query, r.args.limit, tie, r.fault))

GetRecentExpenses ==
    \E r \in Requests({[limit |-> l] : l \in {1, 10}}, {[limit |-> 10]},
                      {"auth", "expense.findMany"}),
       tie \in TieOrders :
        Call("getRecentExpenses", r.session, r.args,
             getRecentExpenses(r.session, r.args.limit, tie, r.fault))

GetCategories ==
    \E r \in Requests({[none |-> ""]}, {[none |-> ""]}, {"auth", "category.findMany"}) :
        Call("getCategories", r.session, r.args, getCategories(r.session, r.fault))

GetCategory ==
    \E r \in Requests({[id |-> id] : id \in CategoryIdsInput}, {[id |-> CategoryId(1)]},
                      {"auth", "category.findFirst"}),
       tie \in TieOrders :
        Call("getCategory", r.session, r.args, getCategory(r.session, r.args.id, tie, r.fault))

GetCategoryStats ==
    \E r \in Requests({[id |-> id] : id \in CategoryIdsInput}, {[id |-> CategoryId(1)]},
                      {"auth", "category.findFirst"}) :
        Call("getCategoryStats", r.session, r.args,
             getCategoryStats(r.session, r.args.id, r.fault))

\* time passes between requests
Tick ==
    /\ now < MaxTime
    /\ now' = now + 1
    /\ UNCHANGED <<users, categories, expenses, nextUser, nextCategory, nextExpense, last,
                   inflight>>

\* a fresh database in which the first user has registered
Init ==
    /\ users = {[id |-> UserId(1), email |-> "seed@example.com", name |-> "Seed",
                 passwordHash |-> "bcrypt:password123"]}
    /\ categories = {}
    /\ expenses = {}
    /\ nextUser = 2
    /\ nextCategory = 1
    /\ nextExpense = 1
    /\ now = 0
    /\ last = [op |-> "none", session |-> NoSession, args |-> [none |-> ""],
               trace |-> <<>>, res |-> NoResult]
    /\ inflight = {}

Register == RegisterWith(RegisterForms)
RegisterBo == RegisterWith({[name |-> "Bo", email |-> "bo@example.com", password |-> "password123"]})
CreateExpense == CreateExpenseWith(CreateExpenseForms)
UpdateExpense == UpdateExpenseWith(UpdateExpenseForms)
CreateCategory == CreateCategoryWith(CreateCategoryForms)
UpdateCategory == UpdateCategoryWith(UpdateCategoryForms)
GetExpenses == GetExpensesWith(GetExpensesOptions)

\* every handler, each with a few arguments
Next ==
    \/ Register
    \/ CreateExpense
    \/ UpdateExpense
    \/ DeleteExpense
    \/ BulkDeleteExpenses
    \/ BulkUpdateCategory
    \/ DuplicateExpense
    \/ CreateCategory
    \/ UpdateCategory
    \/ DeleteCategory
    \/ BulkDeleteCategories
    \/ GetExpenses
    \/ GetExpense
    \/ GetExpenseStats
    \/ GetExpensesByDateRange
    \/ SearchExpenses
    \/ GetRecentExpenses
    \/ GetCategories
    \/ GetCategory
    \/ GetCategoryStats
    \/ Tick

Spec == Init /\ [][Next]_vars

(* ------------------------------ claims -------------------------------- *)
Range(seq) == {seq[i] : i \in DOMAIN seq}

\* a step that is a handler call, whose record is last': every step but Tick
CallStep == now' = now

ExpenseMutations ==
    {"createExpense", "updateExpense", "deleteExpense", "bulkDeleteExpenses",
     "bulkUpdateCategory", "duplicateExpense"}
CategoryMutations == {"createCategory", "updateCategory", "deleteCategory", "bulkDeleteCategories"}
Queries ==
    {"getExpenses", "getExpense", "getExpenseStats", "getExpensesByDateRange", "searchExpenses",
     "getRecentExpenses", "getCategories", "getCategory", "getCategoryStats"}

\* every Category row a result carries, directly or as the relation of a row
ReturnedCategories(res) ==
    Range(res.categories)
    \cup UNION {e.category : e \in Range(res.expenses)}
    \cup UNION {UNION {e.category : e \in Range(g.expenses)} : g \in Range(res.groups)}
\* every Expense row a result carries, directly or as the relation of a row
ReturnedExpenses(res) ==
    Range(res.expenses)
    \cup UNION {Range(c.expenses) : c \in Range(res.categories)}
    \cup UNION {Range(g.expenses) : g \in Range(res.groups)}

\* C1: whatever a signed-in user calls, the result carries only that user's Category
\* and Expense rows, and every row of another user is still in its table, unchanged
C1_TenantIsolation ==
    [][(CallStep
        /\ last'.op \in ExpenseMutations \cup CategoryMutations \cup Queries
        /\ last'.session # NoSession)
       => /\ \A c \in ReturnedCategories(last'.res) : c.userId = last'.session
          /\ \A e \in ReturnedExpenses(last'.res) : e.userId = last'.session
          /\ \A c \in categories : c.userId # last'.session => c \in categories'
          /\ \A e \in expenses : e.userId # last'.session => e \in expenses'
          /\ \A c \in categories' \ categories : c.userId = last'.session
          /\ \A e \in expenses' \ expenses : e.userId = last'.session]_vars

\* C2: createExpense with a form that passes validation but whose categoryId is not a
\* category of the caller returns an error keyed categoryId and writes no expense
C2_CreateExpenseChecksCategory ==
    [][(/\ CallStep
        /\ last'.op = "createExpense"
        /\ last'.session # NoSession
        /\ "throw" \notin Range(last'.trace)
        /\ createExpenseSchema(CreateExpenseData(last'.args.formData)).errors = {}
        /\ FindCategory(last'.args.formData.categoryId, last'.session) = {})
       => /\ last'.res.tag = "error"
          /\ \E f \in last'.res.fields : f[1] = "categoryId"
          /\ expenses' = expenses]_vars

\* C6: a mutation handler whose collaborator call fails returns an error value; the
\* exception never leaves the handler
C6_MutationsNeverThrow ==
    (last.op \in ExpenseMutations \cup CategoryMutations \cup {"register"}
     /\ "throw" \in Range(last.trace))
    => last.res.tag = "error"

\* categories, their expenses, and the deletion of both
NextDeletion ==
    \/ RegisterBo
    \/ CreateCategory
    \/ CreateExpense
    \/ DeleteExpense
    \/ DeleteCategory

SpecDeletion == Init /\ [][NextDeletion]_vars

\* C3: deleteCategory by the owner of the category is rejected with a message that
\* carries the number of its expenses exactly when it has at least one, and the row
\* then stays; with none the row goes and { success: true } comes back
C3_DeleteCategoryBlockedByExpenses ==
    [][(/\ CallStep
        /\ last'.op = "deleteCategory"
        /\ last'.session # NoSession
        /\ "throw" \notin Range(last'.trace)
        /\ FindCategory(last'.args.id, last'.session) # {})
       => LET n == Cardinality({e \in expenses : e.categoryId = last'.args.id})
              rejected ==
                  /\ last'.res.tag = "error"
                  /\ last'.res.message
                       = "Cannot delete category with " \o ToString(n)
                         \o " expense(s). Please delete or reassign the expenses first."
          IN  /\ rejected <=> n > 0
              /\ n > 0 => categories' = categories
              /\ n = 0 => /\ last'.res = Success
                          /\ categories' = {c \in categories : c.id # last'.args.id}
              /\ expenses' = expenses]_vars

C3_Witness ==
    /\ last.op = "deleteCategory"
    /\ last.res.message
         = "Cannot delete category with 2 expense(s). Please delete or reassign the expenses first."
    /\ \E c \in categories : c.id = last.args.id /\ c.userId = last.session

\* every expense and category handler called by a visitor who is not signed in
WithoutSession ==
    LET form == ExpenseForm(CategoryId(1))
        categoryForm == CategoryForm("Food")
        id == ExpenseId(1)
        categoryId == CategoryId(1)
        Visit(op, args, outcome) == Call(op, NoSession, args, outcome)
    IN
    \/ Visit("createExpense", [formData |-> form], createExpense(NoSession, form, "none"))
    \/ Visit("updateExpense", [id |-> id, formData |-> form],
             updateExpense(NoSession, id, form, "none"))
    \/ Visit("deleteExpense", [id |-> id], deleteExpense(NoSession, id, "none"))
    \/ Visit("bulkDeleteExpenses", [ids |-> {id}], bulkDeleteExpenses(NoSession, {id}, "none"))
    \/ Visit("bulkUpdateCategory", [ids |-> {id}, categoryId |-> categoryId],
             bulkUpdateCategory(NoSession, {id}, categoryId, "none"))
    \/ Visit("duplicateExpense", [id |-> id], duplicateExpense(NoSession, id, "none"))
    \/ Visit("createCategory", [formData |-> categoryForm],
             createCategory(NoSession, categoryForm, "none"))
    \/ Visit("updateCategory", [id |-> categoryId, formData |-> categoryForm],
             updateCategory(NoSession, categoryId, categoryForm, "none"))
    \/ Visit("deleteCategory", [id |-> categoryId], deleteCategory(NoSession, categoryId, "none"))
    \/ Visit("bulkDeleteCategories", [ids |-> {categoryId}],
             bulkDeleteCategories(NoSession, {categoryId}, "none"))
    \/ \E tie \in TieOrders :
          \/ Visit("getExpenses", [options |-> NoOptions],
                   getExpenses(NoSession, NoOptions, tie, "none"))
          \/ Visit("getExpenseStats", [period |-> "month"],
                   getExpenseStats(NoSession, "month", tie, "none"))
          \/ Visit("getExpensesByDateRange", [startDate |-> 0, endDate |-> MaxTime],
                   getExpensesByDateRange(NoSession, 0, MaxTime, tie, "none"))
          \/ Visit("searchExpenses", [query |-> "cof", limit |-> 10],
                   searchExpenses(NoSession, "cof", 10, tie, "none"))
          \/ Visit("getRecentExpenses", [limit |-> 10],
                   getRecentExpenses(NoSession, 10, tie, "none"))
          \/ Visit("getCategory", [id |-> categoryId],
                   getCategory(NoSession, categoryId, tie, "none"))
    \/ Visit("getExpense", [id |-> id], getExpense(NoSession, id, "none"))
    \/ Visit("getCategories", [none |-> ""], getCategories(NoSession, "none"))
    \/ Visit("getCategoryStats", [id |-> categoryId],
             getCategoryStats(NoSession, categoryId, "none"))

\* visitors, among the signed-in users' categories and expenses
NextSessions ==
    \/ RegisterBo
    \/ CreateCategory
    \/ CreateExpense
    \/ WithoutSession

SpecSessions == Init /\ [][NextSessions]_vars

\* C7: without a signed-in user an expense or category handler stops at the session
\* check: it calls nothing but auth(), leaves the tables alone and signals no
\* invalidation; a mutation returns an error value and a query throws "Unauthorized"
C7_SessionCheckedFirst ==
    [][(CallStep
        /\ last'.op \in ExpenseMutations \cup CategoryMutations \cup Queries
        /\ last'.session = NoSession)
       => /\ last'.trace = <<"auth">>
          /\ categories' = categories /\ expenses' = expenses /\ users' = users
          /\ last'.op \in ExpenseMutations \cup CategoryMutations => last'.res.tag = "error"
          /\ last'.op \in Queries => last'.res = Thrown("Unauthorized")]_vars

C7_Witness ==
    /\ last.op = "deleteExpense"
    /\ last.session = NoSession
    /\ last.res.tag = "error"
    /\ expenses # {}

ListPage(op) == IF op \in ExpenseMutations THEN "/dashboard/expenses" ELSE "/dashboard/categories"
Writes ==
    {"expense.create", "expense.update", "expense.delete", "expense.deleteMany",
     "expense.updateMany", "category.create", "category.update", "category.delete",
     "category.deleteMany"}
Revalidations ==
    {"revalidatePath /dashboard", "revalidatePath /dashboard/expenses",
     "revalidatePath /dashboard/categories"}

\* C10: a mutation that succeeds has written first and then signalled the dashboard
\* and its entity's list page; a mutation that returns an error has signalled nothing
C10_WriteThenRevalidateBoth ==
    last.op \in ExpenseMutations \cup CategoryMutations
    => IF last.res.tag = "success"
       THEN \E i \in DOMAIN last.trace :
               /\ last.trace[i] \in Writes
               /\ \A j \in 1..(i - 1) : last.trace[j] \notin Revalidations
               /\ SubSeq(last.trace, i + 1, Len(last.trace))
                    = <<"revalidatePath /dashboard", "revalidatePath " \o ListPage(last.op)>>
       ELSE \A i \in DOMAIN last.trace : last.trace[i] \notin Revalidations

(* ----------------------- category names: C4 --------------------------- *)
CategoryNameForms == {CategoryForm(n) : n \in {"Food", "Rent", "F"}}
CategoryRenameForms ==
    {[NoCategoryFields EXCEPT !.name = n] : n \in {"Food", "Rent"}}
    \cup {[NoCategoryFields EXCEPT !.color = "#FFF"]}

CreateNamedCategory == CreateCategoryWith(CategoryNameForms)
RenameCategory == UpdateCategoryWith(CategoryRenameForms)

NextCategories ==
    \/ RegisterBo
    \/ CreateNamedCategory
    \/ RenameCategory
    \/ DeleteCategory
    \/ BulkDeleteCategories

SpecCategories == Init /\ [][NextCategories]_vars

\* C4: createCategory with a name the caller already uses returns the name error and
\* writes nothing, and succeeds otherwise, also when another user uses the name;
\* updateCategory to a name another category of the caller has is rejected the same
\* way; so no two categories of one user ever share a name
C4_CategoryNamesUniquePerUser ==
    [][(/\ CallStep
        /\ last'.op \in {"createCategory", "updateCategory"}
        /\ last'.session # NoSession
        /\ "throw" \notin Range(last'.trace))
       => LET form == last'.args.formData
              taken == \E c \in categories : c.userId = last'.session /\ c.name = form.name
              created == categories' \ categories
          IN  /\ (/\ last'.op = "createCategory"
                  /\ createCategorySchema(CreateCategoryData(form)).errors = {})
                 => IF taken
                    THEN last'.res = DuplicateCategoryName /\ categories' = categories
                    ELSE /\ last'.res.tag = "success"
                         /\ Cardinality(created) = 1
                         /\ \A c \in created : c.name = form.name /\ c.userId = last'.session
              /\ (/\ last'.op = "updateCategory"
                  /\ updateCategorySchema(UpdateCategoryData(form)).errors = {}
                  /\ \E c \in categories :
                        /\ c.id = last'.args.id /\ c.userId = last'.session
                        /\ form.name \notin {Absent, c.name}
                  /\ taken)
                 => last'.res = DuplicateCategoryName /\ categories' = categories
              /\ \A c, d \in categories' :
                    (c.userId = d.userId /\ c.name = d.name) => c.id = d.id]_vars

\* user-2 is told the name exists although user-1 holds the same name as well
C4_Witness ==
    /\ last.op \in {"createCategory", "updateCategory"}
    /\ last.res = DuplicateCategoryName
    /\ \E c, d \in categories : c.userId # d.userId /\ c.name = d.name

(* ------------------- amounts and copies: C5, C8 ----------------------- *)
AmountTexts == {"45.50", "10.557", "0.004", "0", "-5", "abc"}
ReceiptUrl == "https://r.example/1.png"

\* for every category a form with each amount, and one with a receipt
CreateExpenseAmountForms ==
    {[ExpenseForm(c.id) EXCEPT !.amount = a] : c \in categories, a \in AmountTexts}
    \cup {[ExpenseForm(c.id) EXCEPT !.receiptUrl = ReceiptUrl] : c \in categories}
UpdateExpenseAmountForms == {[NoExpenseFields EXCEPT !.amount = a] : a \in AmountTexts}

CreateFoodCategory == CreateCategoryWith({CategoryForm("Food")})
CreateExpenseAmounts == CreateExpenseWith(CreateExpenseAmountForms)
UpdateExpenseAmounts == UpdateExpenseWith(UpdateExpenseAmountForms)

NextExpenses ==
    \/ CreateFoodCategory
    \/ CreateExpenseAmounts
    \/ UpdateExpenseAmounts
    \/ DuplicateExpense
    \/ DeleteExpense
    \/ Tick

SpecExpenses == Init /\ [][NextExpenses]_vars

\* C5: createExpense, and updateExpense with an amount in the form, given an amount
\* that is not above zero or has more than two decimal digits (amounts are counted
\* in thousandths) returns an error keyed amount and leaves every expense as it was
C5_AmountRejected ==
    [][(/\ CallStep
        /\ last'.op \in {"createExpense", "updateExpense"}
        /\ last'.session # NoSession
        /\ "throw" \notin Range(last'.trace)
        /\ last'.args.formData.amount # Absent
        /\ LET amount == parseFloat(last'.args.formData.amount)
           IN  amount.k = "number" /\ (amount.v <= 0 \/ amount.v % 10 # 0))
       => /\ last'.res.tag = "error"
          /\ \E f \in last'.res.fields : f[1] = "amount"
          /\ expenses' = expenses]_vars

\* C8: duplicateExpense of an expense of the caller adds one row: a new id, the
\* description of the original followed by " (copy)", its amount, category, receipt
\* and owner, and the current time as date; every other row stays as it was
C8_DuplicateCopiesAllButIdAndDate ==
    [][(/\ CallStep
        /\ last'.op = "duplicateExpense"
        /\ last'.session # NoSession
        /\ "throw" \notin Range(last'.trace)
        /\ \E o \in expenses : o.id = last'.args.id /\ o.userId = last'.session)
       => LET original == CHOOSE o \in expenses : o.id = last'.args.id
              added == expenses' \ expenses
          IN  /\ last'.res.tag = "success"
              /\ expenses \subseteq expenses'
              /\ Cardinality(added) = 1
              /\ \A n \in added :
                    /\ \A e \in expenses : e.id # n.id
                    /\ n.description = original.description \o " (copy)"
                    /\ n.amount = original.amount
                    /\ n.categoryId = original.categoryId
                    /\ n.receiptUrl = original.receiptUrl
                    /\ n.userId = original.userId
                    /\ n.date = now
                    /\ \E r \in Range(last'.res.expenses) : r.id = n.id
              /\ categories' = categories
              /\ users' = users]_vars

\* a copy made later than its original, of an expense that has a receipt
C8_Witness ==
    /\ last.op = "duplicateExpense"
    /\ last.res.tag = "success"
    /\ \E o, n \in expenses :
          /\ o.id = last.args.id
          /\ n.id # o.id
          /\ o.description = "Coffee"
          /\ n.description = "Coffee (copy)"
          /\ o.receiptUrl = ReceiptUrl /\ n.receiptUrl = ReceiptUrl
          /\ o.date < n.date

(* --------------------------- paging: C9 ------------------------------- *)
\* expenses that differ in description, amount and date
ListedExpenseForms ==
    {ExpenseForm(c.id) : c \in categories}
    \cup {[ExpenseForm(c.id) EXCEPT !.description = "Rent", !.amount = "500", !.date = DateText(1)] :
             c \in categories}

Pagings ==
    {<<Undefined, Undefined>>, <<Number(1), Undefined>>, <<Number(1), Number(1)>>,
     <<Number(0), Number(2)>>}

\* every combination of the four filters with each paging, and each paging in
\* another order
ListOptions ==
    {[categoryId |-> c, startDate |-> s, endDate |-> e, search |-> q,
      limit |-> p[1], offset |-> p[2], sortBy |-> UndefinedStr, sortOrder |-> UndefinedStr] :
        c \in {UndefinedStr, CategoryId(1)},
        s \in {Undefined, Number(1)},
        e \in {Undefined, Number(0)},
        q \in {UndefinedStr, "cof"},
        p \in Pagings}
    \cup {[NoOptions EXCEPT !.limit = p[1], !.offset = p[2], !.sortBy = "amount",
                            !.sortOrder = "asc"] : p \in Pagings}

CreateListedExpense == CreateExpenseWith(ListedExpenseForms)
ListExpenses == GetExpensesWith(ListOptions)

NextQueries ==
    \/ RegisterBo
    \/ CreateFoodCategory
    \/ CreateListedExpense
    \/ ListExpenses
    \/ Tick

SpecQueries == Init /\ [][NextQueries]_vars

\* C9: whatever the filters, the order and the page, getExpenses returns as total the
\* number of the caller's expenses that pass the filters, and as hasMore whether
\* offset plus the number of rows returned is below that total
C9_HasMore ==
    (last.op = "getExpenses" /\ last.res.tag = "returns")
    => LET o == last.args.options
           offset == IF o.offset = Undefined THEN 0 ELSE o.offset.v
           matching ==
               {e \in expenses :
                   /\ e.userId = last.session
                   /\ o.categoryId # UndefinedStr => e.categoryId = o.categoryId
                   /\ o.startDate # Undefined => e.date >= o.startDate.v
                   /\ o.endDate # Undefined => e.date <= o.endDate.v
                   /\ o.search # UndefinedStr
                      => \E i \in 1..(Len(e.description) - Len(o.search) + 1) :
                            ToLower(SubSeq(e.description, i, i + Len(o.search) - 1))
                              = ToLower(o.search)}
       IN  /\ last.res.total = Cardinality(matching)
           /\ last.res.hasMore <=> (offset + Len(last.res.expenses) < Cardinality(matching))

\* the second page of one row each: one row returned and nothing more to come
C9_Witness ==
    /\ last.op = "getExpenses"
    /\ last.res.tag = "returns"
    /\ last.args.options.offset = Number(1)
    /\ Len(last.res.expenses) = 1
    /\ last.res.total = 2
    /\ ~last.res.hasMore

(* ------------------ absent or not one's own: C11 ---------------------- *)
\* what a caller and the database show of a handler call
Observed(outcome) ==
    [res |-> outcome.res, users |-> outcome.users, categories |-> outcome.categories,
     expenses |-> outcome.expenses]

\* the same, leaving aside the categoryId the caller passed, which the new row keeps
Unlinked(e) == [e EXCEPT !.categoryId = ""]
ObservedButCategoryId(outcome) ==
    [Observed(outcome) EXCEPT
        !.res.expenses = [i \in DOMAIN @ |-> Unlinked(@[i])],
        !.expenses = {IF e \in expenses THEN e ELSE Unlinked(e) : e \in @}]

\* the handlers that take the id of an expense: the id of another user's expense
\* against an id of no expense
ExpenseIdHidden(session, id) ==
    LET form == [NoExpenseFields EXCEPT !.description = "Tea"] IN
    /\ Observed(getExpense(session, id, "none"))
         = Observed(getExpense(session, UnknownExpenseId, "none"))
    /\ Observed(updateExpense(session, id, form, "none"))
         = Observed(updateExpense(session, UnknownExpenseId, form, "none"))
    /\ Observed(deleteExpense(session, id, "none"))
         = Observed(deleteExpense(session, UnknownExpenseId, "none"))
    /\ Observed(duplicateExpense(session, id, "none"))
         = Observed(duplicateExpense(session, UnknownExpenseId, "none"))
    /\ \A own \in SUBSET {e.id : e \in FindExpenseOf(session)} :
          /\ Observed(bulkDeleteExpenses(session, own \cup {id}, "none"))
               = Observed(bulkDeleteExpenses(session, own \cup {UnknownExpenseId}, "none"))
          /\ \A c \in FindCategoryOf(session) :
                Observed(bulkUpdateCategory(session, own \cup {id}, c.id, "none"))
                  = Observed(bulkUpdateCategory(session, own \cup {UnknownExpenseId}, c.id, "none"))

\* the handlers that take the id of a category
CategoryIdHidden(session, id) ==
    LET form == [NoCategoryFields EXCEPT !.color = "#FFF"] IN
    /\ \A tie \in TieOrders :
          Observed(getCategory(session, id, tie, "none"))
            = Observed(getCategory(session, UnknownCategoryId, tie, "none"))
    /\ Observed(getCategoryStats(session, id, "none"))
         = Observed(getCategoryStats(session, UnknownCategoryId, "none"))
    /\ Observed(updateCategory(session, id, form, "none"))
         = Observed(updateCategory(session, UnknownCategoryId, form, "none"))
    /\ Observed(deleteCategory(session, id, "none"))
         = Observed(deleteCategory(session, UnknownCategoryId, "none"))
    /\ \A own \in SUBSET {c.id : c \in FindCategoryOf(session)} :
          Observed(bulkDeleteCategories(session, own \cup {id}, "none"))
            = Observed(bulkDeleteCategories(session, own \cup {UnknownCategoryId}, "none"))

\* the handlers that take a categoryId for an expense of the caller
CategoryReferenceHidden(session, id) ==
    \A e \in FindExpenseOf(session) :
          /\ Observed(updateExpense(session, e.id, [NoExpenseFields EXCEPT !.categoryId = id],
                                    "none"))
               = Observed(updateExpense(session, e.id,
                                        [NoExpenseFields EXCEPT !.categoryId = UnknownCategoryId],
                                        "none"))
          /\ Observed(bulkUpdateCategory(session, {e.id}, id, "none"))
               = Observed(bulkUpdateCategory(session, {e.id}, UnknownCategoryId, "none"))

\* createExpense, which takes a categoryId for a new expense
NewExpenseCategoryHidden(session, id) ==
    ObservedButCategoryId(createExpense(session, ExpenseForm(id), "none"))
         = ObservedButCategoryId(createExpense(session, ExpenseForm(UnknownCategoryId), "none"))

\* C11: to a caller the id of a row of another user and an id of no row are alike:
\* from the same state every handler that takes an expense id, a category id or a
\* categoryId returns the same value and leaves the same database for both
C11_AbsentAndForeignAlike ==
    \A session \in SignedIn :
        /\ \A e \in expenses : e.userId # session => ExpenseIdHidden(session, e.id)
        /\ \A c \in categories :
              c.userId # session
              => /\ CategoryIdHidden(session, c.id)
                 /\ CategoryReferenceHidden(session, c.id)
                 /\ NewExpenseCategoryHidden(session, c.id)

(* --------------- emptying a category, then deleting it: C12 ----------- *)
NextRecovery ==
    \/ RegisterBo
    \/ CreateCategory
    \/ CreateExpense
    \/ UpdateExpense
    \/ BulkUpdateCategory
    \/ DeleteExpense
    \/ BulkDeleteExpenses
    \/ DeleteCategory

SpecRecovery == Init /\ [][NextRecovery]_vars

\* C12: when a call that removes or reassigns expenses takes the last expense off a
\* category whose deletion was being rejected for its expenses, a deleteCategory by
\* its owner now succeeds and removes the row
C12_DeletableOnceEmptied ==
    [][(/\ CallStep
        /\ last'.op \in {"deleteExpense", "bulkDeleteExpenses", "updateExpense",
                         "bulkUpdateCategory"})
       => \A c \in categories :
             (/\ \E e \in expenses : e.categoryId = c.id
              /\ deleteCategory(c.userId, c.id, "none").res.tag = "error"
              /\ \A e \in expenses' : e.categoryId # c.id)
             => LET retried == deleteCategory(c.userId, c.id, "none")'
                IN  /\ retried.res = Success
                    /\ \A d \in retried.categories : d.id # c.id]_vars

\* the only category there is has just lost its last expense to a deleteExpense
C12_Witness ==
    /\ last.op = "deleteExpense"
    /\ last.res = Success
    /\ expenses = {}
    /\ \E c \in categories : categories = {c} /\ c.userId = last.session

(* ------------------- whose category an expense has: C13 --------------- *)
\* C13: in every state the category of each expense belongs to the user the expense
\* belongs to
C13_ExpenseCategorySameOwner ==
    \A e \in expenses : \A c \in categories : c.id = e.categoryId => c.userId = e.userId

(* ------------------------ partial updates: C14 ------------------------ *)
\* forms that carry one field, two fields or every field with values that pass,
\* and forms with one value that does not
PartialExpenseForms ==
    {[NoExpenseFields EXCEPT !.amount = "10.557"],
     [NoExpenseFields EXCEPT !.description = "Tea"],
     [NoExpenseFields EXCEPT !.date = DateText(1)],
     [NoExpenseFields EXCEPT !.receiptUrl = ReceiptUrl],
     [NoExpenseFields EXCEPT !.receiptUrl = ""],
     [NoExpenseFields EXCEPT !.amount = "10.557", !.description = "Tea"],
     [amount |-> "10.557", description |-> "Tea", categoryId |-> CategoryId(1),
      date |-> DateText(1), receiptUrl |-> ReceiptUrl],
     [NoExpenseFields EXCEPT !.amount = "-5"],
     [NoExpenseFields EXCEPT !.description = ""],
     [NoExpenseFields EXCEPT !.receiptUrl = "not a url"]}
    \cup {[NoExpenseFields EXCEPT !.categoryId = c] : c \in CategoryIdsInput}
PartialCategoryForms ==
    {[NoCategoryFields EXCEPT !.name = "Rent"],
     [NoCategoryFields EXCEPT !.color = "#FFF"],
     [NoCategoryFields EXCEPT !.icon = "x"],
     [NoCategoryFields EXCEPT !.budget = ""],
     [NoCategoryFields EXCEPT !.color = "#FFF", !.budget = "45.50"],
     [name |-> "Rent", color |-> "#FFF", icon |-> "x", budget |-> "45.50"],
     [NoCategoryFields EXCEPT !.name = "F"],
     [NoCategoryFields EXCEPT !.color = "red"],
     [NoCategoryFields EXCEPT !.budget = "-5"]}

\* the updates aim at the first row of each table, or at no row; the second row
\* stands by
UpdateExpensePartly ==
    \E s \in SignedIn, id \in {ExpenseId(1), UnknownExpenseId}, f \in PartialExpenseForms,
       fault \in {"none", "expense.update"} :
        /\ fault # "none" => f = [NoExpenseFields EXCEPT !.description = "Tea"]
        /\ Call("updateExpense", s, [id |-> id, formData |-> f],
                updateExpense(s, id, f, fault))
UpdateCategoryPartly ==
    \E s \in SignedIn, id \in {CategoryId(1), UnknownCategoryId}, f \in PartialCategoryForms,
       fault \in {"none", "category.update"} :
        /\ fault # "none" => f = [NoCategoryFields EXCEPT !.color = "#FFF"]
        /\ Call("updateCategory", s, [id |-> id, formData |-> f],
                updateCategory(s, id, f, fault))

NextUpdates ==
    \/ CreateNamedCategory
    \/ CreateExpense
    \/ UpdateExpensePartly
    \/ UpdateCategoryPartly
    \/ Tick

SpecUpdates == Init /\ [][NextUpdates]_vars

\* the value a form's text stands for once validated
ValidatedAmount(text) == RoundToPrecision(parseFloat(text).v)
ValidatedOptionalText(text) == IF text = "" THEN NullStr ELSE text

\* C14: a successful updateExpense or updateCategory changes the one row it names:
\* each field the form carries takes its validated value, every other field and the
\* id and owner stay; a call that does not succeed changes no row at all
C14_PartialUpdate ==
    [][(CallStep /\ last'.op \in {"updateExpense", "updateCategory"})
       => LET form == last'.args.formData
              Kept(supplied, old, new, expected) ==
                  IF supplied = Absent THEN new = old ELSE new = expected
          IN  /\ users' = users
              /\ last'.res.tag # "success" => categories' = categories /\ expenses' = expenses
              /\ (last'.res.tag = "success" /\ last'.op = "updateExpense")
                 => /\ categories' = categories
                    /\ \E old \in expenses, new \in expenses' :
                          /\ old.id = last'.args.id /\ new.id = old.id
                          /\ expenses' \ {new} = expenses \ {old}
                          /\ new.userId = old.userId
                          /\ Kept(form.amount, old.amount, new.amount,
                                  ValidatedAmount(form.amount))
                          /\ Kept(form.description, old.description, new.description,
                                  form.description)
                          /\ Kept(form.categoryId, old.categoryId, new.categoryId,
                                  form.categoryId)
                          /\ Kept(form.date, old.date, new.date, NewDate(form.date).v)
                          /\ Kept(form.receiptUrl, old.receiptUrl, new.receiptUrl,
                                  ValidatedOptionalText(form.receiptUrl))
              /\ (last'.res.tag = "success" /\ last'.op = "updateCategory")
                 => /\ expenses' = expenses
                    /\ \E old \in categories, new \in categories' :
                          /\ old.id = last'.args.id /\ new.id = old.id
                          /\ categories' \ {new} = categories \ {old}
                          /\ new.userId = old.userId
                          /\ Kept(form.name, old.name, new.name, form.name)
                          /\ Kept(form.color, old.color, new.color, form.color)
                          /\ Kept(form.icon, old.icon, new.icon,
                                  ValidatedOptionalText(form.icon))
                          /\ Kept(form.budget, old.budget, new.budget,
                                  IF form.budget = "" THEN Null
                                  ELSE Number(ValidatedAmount(form.budget)))]_vars

\* an update of the amount alone, of an expense that has a receipt and a changed
\* description
C14_Witness ==
    /\ last.op = "updateExpense"
    /\ last.res.tag = "success"
    /\ last.args.formData = [NoExpenseFields EXCEPT !.amount = "10.557"]
    /\ \E e \in expenses :
          /\ e.id = last.args.id
          /\ e.amount = 10560
          /\ e.description = "Tea"
          /\ e.receiptUrl = ReceiptUrl

(* ------------------- bulk deletion of categories: C15 ------------------ *)
NextBulk ==
    \/ RegisterBo
    \/ CreateNamedCategory
    \/ CreateExpense
    \/ BulkDeleteCategories

SpecBulk == Init /\ [][NextBulk]_vars

\* C15: bulkDeleteCategories by a signed-in user, with the store answering: when one
\* of the user's categories among ids has an expense the call is an error and no
\* category is deleted; otherwise exactly the user's categories among ids go, no
\* other row changes, and the count returned is the number of rows deleted
C15_BulkDeleteAllOrNothing ==
    [][(CallStep /\ last'.op = "bulkDeleteCategories" /\ last'.session # NoSession)
       => LET own == {c \in categories : c.id \in last'.args.ids /\ c.userId = last'.session}
              blocked == \E c \in own : \E e \in expenses : e.categoryId = c.id
          IN  /\ users' = users /\ expenses' = expenses
              /\ last'.res.tag # "success" => categories' = categories
              /\ blocked => last'.res.tag = "error"
              /\ (~blocked /\ "throw" \notin Range(last'.trace))
                 => /\ last'.res = SuccessCount(Cardinality(categories \ categories'))
                    /\ categories' = categories \ own]_vars

\* the call named a category with an expense and one without, both the caller's,
\* and both are still there
C15_Witness ==
    /\ last.op = "bulkDeleteCategories"
    /\ last.res.tag = "error"
    /\ \E c, d \in categories :
          /\ {c.id, d.id} \subseteq last.args.ids
          /\ c.userId = last.session /\ d.userId = last.session
          /\ \E e \in expenses : e.categoryId = c.id
          /\ \A e \in expenses : e.categoryId # d.id

(* ------------------- interleaved requests: C16 ------------------------ *)
\* A handler that reads, decides and then writes awaits its write after the read;
\* requests of other handlers run in between.  inflight holds the requests that
\* have passed their reads and not yet written.
MaxInFlight == 2

\* prisma.category.delete({ where: { id } }): rejects when the row is gone
deleteCategoryWrite(id) ==
    IF \A c \in categories : c.id # id
    THEN Return(<<"category.delete", "throw">>,
                ErrorString("Failed to delete category. Please try again."))
    ELSE Outcome(users, {c \in categories : c.id # id}, expenses,
                 <<"category.delete", "revalidatePath /dashboard",
                   "revalidatePath /dashboard/categories">>,
                 Success)

\* prisma.category.deleteMany({ where: { id: { in: ids }, userId } })
bulkDeleteCategoriesWrite(session, ids) ==
    LET matched == {c \in categories : c.id \in ids /\ c.userId = session} IN
    Outcome(users, categories \ matched, expenses,
            <<"category.deleteMany", "revalidatePath /dashboard",
              "revalidatePath /dashboard/categories">>,
            SuccessCount(Cardinality(matched)))

\* prisma.expense.update({ where: { id }, data: validation.data }): rejects when
\* the row is gone
updateExpenseWrite(id, formData) ==
    LET validation == validateWithJoi(updateExpenseSchema(UpdateExpenseData(formData))) IN
    IF \A e \in expenses : e.id # id
    THEN Return(<<"expense.update", "throw">>, UpdateExpenseFailed)
    ELSE LET old == CHOOSE e \in expenses : e.id = id
             new == UpdatedExpense(old, validation.data)
         IN  Outcome(users, categories, (expenses \ {old}) \cup {new},
                     <<"expense.update", "revalidatePath /dashboard",
                       "revalidatePath /dashboard/expenses">>,
                     SuccessExpense(WithCategory(new)))

\* prisma.expense.updateMany({ where: { id: { in: ids }, userId }, data: { categoryId } })
bulkUpdateCategoryWrite(session, ids, categoryId) ==
    LET matched == {e \in expenses : e.id \in ids /\ e.userId = session} IN
    Outcome(users, categories,
            (expenses \ matched) \cup {[e EXCEPT !.categoryId = categoryId] : e \in matched},
            <<"expense.updateMany", "revalidatePath /dashboard",
              "revalidatePath /dashboard/expenses">>,
            SuccessCount(Cardinality(matched)))

\* prisma.expense.create from the originalExpense that findFirst returned
duplicateExpenseWrite(session, original) ==
    LET duplicate == DuplicateData(original, session) IN
    IF ForeignKeyViolated(original.categoryId)
    THEN Return(<<"expense.create", "throw">>,
                ErrorString("Failed to duplicate expense. Please try again."))
    ELSE Outcome(users, categories, expenses \cup {duplicate},
                 <<"expense.create", "revalidatePath /dashboard",
                   "revalidatePath /dashboard/expenses">>,
                 SuccessExpense(WithCategory(duplicate)))

\* the reads of a request: when they lead to the write the request waits in
\* inflight; otherwise the handler has returned
Begin(op, session, args, outcome, read) ==
    IF outcome.res.tag = "success"
    THEN /\ Cardinality(inflight) < MaxInFlight
         /\ inflight' = inflight \cup {[op |-> op, session |-> session, args |-> args,
                                       read |-> read]}
         /\ UNCHANGED <<users, categories, expenses, nextUser, nextCategory, nextExpense,
                        now, last>>
    ELSE Call(op, session, args, outcome)

\* the write of a waiting request, and its return
Finish(r, outcome) ==
    /\ outcome.expenses # expenses => nextExpense <= MaxExpenses
    /\ Returned(r.op, r.session, r.args, outcome)
    /\ inflight' = inflight \ {r}

\* forms that move an expense to a category that exists
ReassignForms == {[NoExpenseFields EXCEPT !.categoryId = c.id] : c \in categories}

BeginDeleteCategory ==
    \E s \in SignedIn, id \in CategoryIdsInput :
        Begin("deleteCategory", s, [id |-> id], deleteCategory(s, id, "none"), {})
FinishDeleteCategory ==
    \E r \in inflight :
        r.op = "deleteCategory" /\ Finish(r, deleteCategoryWrite(r.args.id))
BeginBulkDeleteCategories ==
    \E s \in SignedIn :
        LET ids == {c.id : c \in categories} IN
        Begin("bulkDeleteCategories", s, [ids |-> ids], bulkDeleteCategories(s, ids, "none"), {})
FinishBulkDeleteCategories ==
    \E r \in inflight :
        r.op = "bulkDeleteCategories"
        /\ Finish(r, bulkDeleteCategoriesWrite(r.session, r.args.ids))
BeginUpdateExpense ==
    \E s \in SignedIn, id \in ExpenseIdsInput, f \in ReassignForms :
        Begin("updateExpense", s, [id |-> id, formData |-> f],
              updateExpense(s, id, f, "none"), {})
FinishUpdateExpense ==
    \E r \in inflight :
        r.op = "updateExpense" /\ Finish(r, updateExpenseWrite(r.args.id, r.args.formData))
BeginBulkUpdateCategory ==
    \E s \in SignedIn, c \in CategoryIdsInput :
        LET ids == {e.id : e \in expenses} IN
        Begin("bulkUpdateCategory", s, [ids |-> ids, categoryId |-> c],
              bulkUpdateCategory(s, ids, c, "none"), {})
FinishBulkUpdateCategory ==
    \E r \in inflight :
        r.op = "bulkUpdateCategory"
        /\ Finish(r, bulkUpdateCategoryWrite(r.session, r.args.ids, r.args.categoryId))
BeginDuplicateExpense ==
    \E s \in SignedIn, id \in ExpenseIdsInput :
        Begin("duplicateExpense", s, [id |-> id], duplicateExpense(s, id, "none"),
              FindExpense(id, s))
FinishDuplicateExpense ==
    \E r \in inflight :
        r.op = "duplicateExpense"
        /\ \E original \in r.read : Finish(r, duplicateExpenseWrite(r.session, original))

\* createExpense has one persistence call and no read before it
NextRace ==
    \/ CreateNamedCategory
    \/ CreateExpense
    \/ BeginDeleteCategory
    \/ FinishDeleteCategory
    \/ BeginBulkDeleteCategories
    \/ FinishBulkDeleteCategories
    \/ BeginUpdateExpense
    \/ FinishUpdateExpense
    \/ BeginBulkUpdateCategory
    \/ FinishBulkUpdateCategory
    \/ BeginDuplicateExpense
    \/ FinishDuplicateExpense

SpecRace == Init /\ [][NextRace]_vars

\* C16: whatever the order in which concurrent requests read and write, every
\* expense names a category that exists
C16_ExpenseCategoryExists ==
    \A e \in expenses : \E c \in categories : c.id = e.categoryId

(* -------------------- description lengths: C17 ------------------------ *)
RECURSIVE Filled(_)
\* a text of n characters
Filled(n) ==
    IF n = 0 THEN ""
    ELSE IF n % 2 = 1 THEN Filled(n - 1) \o "x"
    ELSE LET half == Filled(n \div 2) IN half \o half

\* descriptions at and around the bounds of Joi.string().min(1).max(255)
Descriptions == {"", "x", "Coffee", Filled(255), Filled(256)}

CreateDescribedExpense ==
    CreateExpenseWith({[ExpenseForm(c.id) EXCEPT !.description = d] :
                          c \in categories, d \in Descriptions})
UpdateDescription ==
    UpdateExpenseWith({[NoExpenseFields EXCEPT !.description = d] : d \in Descriptions})

NextDescriptions ==
    \/ CreateFoodCategory
    \/ CreateDescribedExpense
    \/ UpdateDescription
    \/ DuplicateExpense
    \/ DeleteExpense

SpecDescriptions == Init /\ [][NextDescriptions]_vars

\* C17: every stored expense has a description of 1 to 255 characters
C17_DescriptionLength ==
    \A e \in expenses : Len(e.description) >= 1 /\ Len(e.description) <= 255

(* ----------------------- statistics: C18 ------------------------------ *)
NextStats ==
    \/ CreateFoodCategory
    \/ CreateExpense
    \/ GetExpenseStats
    \/ Tick

SpecStats == Init /\ [][NextStats]_vars

\* C18: the number of days getExpenseStats divides the total by is at least 1,
\* for every period and at every time
C18_DaysAtLeastOne ==
    (last.op = "getExpenseStats" /\ last.res.tag = "returns")
        => last.res.stats.averagePerDay.den >= 1
====
